---------------------------- MODULE Spec2Model ----------------------------
(***************************************************************************)
(* Model of the seahorse-sharing daemon: its HKP (HTTP Keyserver Protocol) *)
(* server, src/src/daemon/seahorse-hkp-server.c, and the DNS-SD publishing *)
(* of that server through Avahi, src/unnamed/part_000.                     *)
(*                                                                         *)
(* Text is modelled as a sequence of chunks.  Text that a peer or the      *)
(* keyring controls (query parameters, names, emails, fingerprints) is     *)
(* one character per chunk, so that escaping, case folding, suffixes and   *)
(* grouping are computed character by character as the C code does.  The   *)
(* literal pieces of the C format strings are one chunk each.              *)
(***************************************************************************)
EXTENDS Integers, Sequences, FiniteSets, TLC

VARIABLES soup_server, gpgme_ctx, msg, calls, ret, heap,
          share_name, share_alternate, avahi_client, avahi_group, user, steps,
          render, daemon

\* the statics of the publishing code, the account it runs under, and the
\* calls its last entry point made
sharing_vars == <<share_name, share_alternate, avahi_client, avahi_group, user, steps>>

\* render is one run of the index renderer on its own: the key records it
\* is given, its flags, the response so far and the number of records done
\* daemon is the daemon's main: where it stands, its statics daemon_quit and
\* daemon_running, the termination requests that have arrived and are not
\* yet handled, and whether the main loop has been asked to quit
vars == <<soup_server, gpgme_ctx, msg, calls, ret, heap, sharing_vars, render, daemon>>

(***************************************************************************)
(* Bounds of the model.                                                    *)
(***************************************************************************)
\* the most keys the keyring hands out before gpgme_op_keylist_next fails
MaxNext == 3
\* the listener's port is drawn from 1..MaxPort
MaxPort == 2
\* group collisions are delivered while share_alternate is below MaxAlternate
MaxAlternate == 2
\* the renderer is given at most MaxRecords key records
MaxRecords == 2

(***************************************************************************)
(* Program constants.                                                      *)
(***************************************************************************)
SOUP_STATUS_NONE == 0
SOUP_STATUS_OK == 200
SOUP_STATUS_NOT_FOUND == 404
SOUP_STATUS_METHOD_NOT_ALLOWED == 405
SOUP_STATUS_INTERNAL_SERVER_ERROR == 500
\* how many trailing characters of a fingerprint or key id are shown
ShortIdLen == 8
\* the fingerprint line is grouped in blocks of this many characters
FprBlock == 4

HKP_ERROR_RESPONSE ==
    <<"<title>Public Key Server -- Error</title><p>\r\n<h1>Public Key Server -- Error</h1><p>\r\n">>
HKP_INDEX_SUFFIX == <<"</pre>">>
HKP_INDEX_REVOKED == <<"*** KEY REVOKED ***">>
HKP_GET_SUFFIX == <<"\r\n</pre>">>
HKP_ADD_RESPONSE ==
    <<"<title>Public Key Server -- Error</title><p>\r\n<h1>Public Key Server -- Error</h1><p>\r\nAdding of keys not allowed">>
HKP_NOTFOUND_RESPONSE ==
    <<"<HEAD><TITLE>404 Not Found</TITLE></HEAD><BODY>unknown uri in pks request</BODY>\r\n">>

(***************************************************************************)
(* C string helpers.                                                       *)
(***************************************************************************)
UpperChars == <<"A","B","C","D","E","F","G","H","I","J","K","L","M",
                "N","O","P","Q","R","S","T","U","V","W","X","Y","Z">>
LowerChars == <<"a","b","c","d","e","f","g","h","i","j","k","l","m",
                "n","o","p","q","r","s","t","u","v","w","x","y","z">>

\* g_ascii_tolower
AsciiToLower(c) ==
    IF \E i \in 1..Len(UpperChars) : UpperChars[i] = c
    THEN LowerChars[CHOOSE i \in 1..Len(UpperChars) : UpperChars[i] = c]
    ELSE c

\* g_ascii_strcasecmp (a, b) == 0
StrCaseEq(a, b) ==
    /\ Len(a) = Len(b)
    /\ \A i \in 1..Len(a) : AsciiToLower(a[i]) = AsciiToLower(b[i])

\* last_x: the last "len" characters of "str", or all of it when shorter
last_x(str, len) ==
    IF Len(str) > len THEN SubSeq(str, Len(str) - len + 1, Len(str)) ELSE str

EscapeChar(c) ==
    CASE c = "<" -> <<"&lt;">>
      [] c = ">" -> <<"&gt;">>
      [] c = "&" -> <<"&amp;">>
      [] c = "\"" -> <<"&quot;">>
      [] OTHER -> <<c>>

RECURSIVE escape_html(_)
escape_html(str) ==
    IF str = <<>> THEN <<>>
    ELSE EscapeChar(Head(str)) \o escape_html(Tail(str))

DigitChars == <<"0","1","2","3","4","5","6","7","8","9">>

\* the decimal digits of n >= 0, as printf's %d writes them
RECURSIVE Decimal(_)
Decimal(n) ==
    IF n < 10 THEN <<DigitChars[n + 1]>>
    ELSE Decimal(n \div 10) \o <<DigitChars[(n % 10) + 1]>>

\* printf's left padding to a minimum field width
RECURSIVE PadLeft(_, _, _)
PadLeft(s, width, fill) ==
    IF Len(s) >= width THEN s ELSE PadLeft(<<fill>> \o s, width, fill)


(***************************************************************************)
(* The keyring behind the gpgme context.  gpgme and the keys it holds are  *)
(* outside the program: the server only lists and exports.                 *)
(***************************************************************************)
GPGME_KEYLIST_MODE_LOCAL == "GPGME_KEYLIST_MODE_LOCAL"
GPGME_KEYLIST_MODE_SIGS == "GPGME_KEYLIST_MODE_SIGS"

SigAlice == [keyid |-> <<"1","1","1","1","2","2","2","2","A","A","A","A","0","0","0","1">>,
             name |-> <<"A","l">>, email |-> <<"a","@","x">>]
SigBob == [keyid |-> <<"D","E","A","D","B","E","E","F","0","0","0","0","C","0","F","E">>,
           name |-> <<"B","o">>, email |-> <<>>]
SigAnon == [keyid |-> <<"9","9","9","9","8","8","8","8","7","7","7","7","6","6","6","6">>,
            name |-> <<>>, email |-> <<"n","@","x">>]

KeyAlice ==
    [fpr |-> <<"A","A","A","A","1","1","1","1","B","B","B","B","2","2","2","2">>,
     pubkey_algo |-> "GPGME_PK_RSA", length |-> 2048, timestamp |-> 1579046400,
     revoked |-> FALSE,
     uids |-> <<[name |-> <<"A","l">>, email |-> <<>>,
                 signatures |-> <<SigAlice, SigBob>>]>>]
KeyBob ==
    [fpr |-> <<"D","E","A","D","B","E","E","F","0","0","0","0","C","0","F","E">>,
     pubkey_algo |-> "GPGME_PK_DSA", length |-> 1024, timestamp |-> 951782400,
     revoked |-> TRUE,
     uids |-> <<[name |-> <<"B","o">>, email |-> <<"b","@","x">>,
                 signatures |-> <<SigBob>>],
                [name |-> <<"B","<">>, email |-> <<>>,
                 signatures |-> <<SigAlice, SigAnon>>]>>]
KeyCarol ==
    [fpr |-> <<"F","0","0","D","F","0","0","D","5","5","5","5","4","4","4","4">>,
     pubkey_algo |-> "GPGME_PK_ELG_E", length |-> 768, timestamp |-> 0,
     revoked |-> FALSE,
     uids |-> <<[name |-> <<>>, email |-> <<"c","@","x">>, signatures |-> <<>>],
                [name |-> <<"C","a">>, email |-> <<"c","@","y">>,
                 signatures |-> <<SigAnon>>]>>]
KeyDave ==
    [fpr |-> <<"0","1","2","3","4","5","6","7","8","9","A","B","C","D","E","F","0","1","2","8">>,
     pubkey_algo |-> "GPGME_PK_ECDSA", length |-> 256, timestamp |-> 1709251199,
     revoked |-> FALSE,
     uids |-> <<[name |-> <<"D","&">>, email |-> <<"d","@","x">>,
                 signatures |-> <<>>]>>]

\* keys the renderer is also tried on: a revoked key with a single user id,
\* and a revoked key without any user id
KeyEve ==
    [KeyAlice EXCEPT !.revoked = TRUE,
                     !.fpr = <<"E","0","E","0","E","0","E","0","1","2","1","2","3","4","3","4">>]
KeyNone ==
    [KeyBob EXCEPT !.uids = <<>>,
                   !.fpr = <<"A","A","A","A","B","B","B","B","C","C","C","C","D","D","D","D">>]

Keyring == <<KeyAlice, KeyBob, KeyCarol, KeyDave>>

\* search terms the peers use
SearchAll == <<"x">>
SearchBob == <<"B","<">>
SearchNobody == <<"n","o">>

\* which keys of the keyring a gpgme pattern selects, in keyring order
Matches(key, search) ==
    \/ search = SearchAll
    \/ search = SearchBob /\ key = KeyBob

RECURSIVE SelectKeys(_, _)
SelectKeys(keys, search) ==
    IF keys = <<>> THEN <<>>
    ELSE (IF Matches(Head(keys), search) THEN <<Head(keys)>> ELSE <<>>)
         \o SelectKeys(Tail(keys), search)

\* a key as gpgme_op_keylist_next hands it out: the signatures of its user
\* ids are filled in only in GPGME_KEYLIST_MODE_SIGS
ListedKey(key, mode) ==
    IF GPGME_KEYLIST_MODE_SIGS \in mode THEN key
    ELSE [key EXCEPT !.uids =
            [i \in 1..Len(key.uids) |-> [key.uids[i] EXCEPT !.signatures = <<>>]]]

\* the keys one listing yields: gpgme_op_keylist_next succeeds for the
\* matching keys until they run out or the engine fails (after next_limit)
Keylist(ctx, search, next_limit) ==
    LET all == SelectKeys(Keyring, search)
        n == IF Len(all) < next_limit THEN Len(all) ELSE next_limit
    IN [i \in 1..n |-> ListedKey(all[i], ctx.keylist_mode)]

\* the data gpgme_op_export writes: one block per matching key, ASCII
\* armored or binary as the context's armor flag says
ExportBlock(key, armor) ==
    IF armor
    THEN <<"-----BEGIN PGP PUBLIC KEY BLOCK-----\n">> \o key.fpr
         \o <<"\n-----END PGP PUBLIC KEY BLOCK-----\n">>
    ELSE <<"0x99">> \o key.fpr

RECURSIVE ExportBlocks(_, _)
ExportBlocks(keys, armor) ==
    IF keys = <<>> THEN <<>>
    ELSE ExportBlock(Head(keys), armor) \o ExportBlocks(Tail(keys), armor)

Export(ctx, search) == ExportBlocks(SelectKeys(Keyring, search), ctx.armor)

\* a context as gpgme_new returns it
NewCtx == [keylist_mode |-> {GPGME_KEYLIST_MODE_LOCAL}, armor |-> FALSE]
NULL == [null |-> TRUE]

(***************************************************************************)
(* gmtime_r + strftime "%Y/%m/%d".                                         *)
(***************************************************************************)
SecondsPerDay == 86400

CivilFromDays(days) ==
    LET z == days + 719468
        era == z \div 146097
        doe == z - era * 146097
        yoe == (doe - doe \div 1460 + doe \div 36524 - doe \div 146096) \div 365
        doy == doe - (365 * yoe + yoe \div 4 - yoe \div 100)
        mp == (5 * doy + 2) \div 153
        d == doy - (153 * mp + 2) \div 5 + 1
        m == IF mp < 10 THEN mp + 3 ELSE mp - 9
        y == yoe + era * 400 + (IF m <= 2 THEN 1 ELSE 0)
    IN [year |-> y, mon |-> m, mday |-> d]

FormatDate(timestamp) ==
    LET tm == CivilFromDays(timestamp \div SecondsPerDay)
    IN PadLeft(Decimal(tm.year), 4, "0") \o <<"/">>
       \o PadLeft(Decimal(tm.mon), 2, "0") \o <<"/">>
       \o PadLeft(Decimal(tm.mday), 2, "0")

(***************************************************************************)
(* Rendering of one key (the index and verbose index pages).               *)
(***************************************************************************)
\* format_key_fingerprint: a space before every FprBlock-th character
format_key_fingerprint(key) ==
    LET raw == key.fpr
        F[i \in 0..Len(raw)] ==
            IF i = 0 THEN <<>>
            ELSE F[i - 1]
                 \o (IF i - 1 > 0 /\ (i - 1) % FprBlock = 0 THEN <<" ">> ELSE <<>>)
                 \o <<raw[i]>>
    IN F[Len(raw)]

\* format_key_uid: an empty name or email counts as absent
format_key_uid(name, keyid, email) ==
    IF name # <<>> /\ email # <<>>
    THEN name \o <<" &lt;<a href=\"/pks/lookup?op=index&search=0x">>
         \o last_x(keyid, ShortIdLen) \o <<"\">">> \o email \o <<"</a>&gt;">>
    ELSE IF name # <<>> THEN name \o <<" ">>
    ELSE <<>>

get_key_algo_letter(key) ==
    CASE key.pubkey_algo \in {"GPGME_PK_RSA", "GPGME_PK_RSA_E", "GPGME_PK_RSA_S"} -> <<"R">>
      [] key.pubkey_algo \in {"GPGME_PK_ELG", "GPGME_PK_ELG_E"} -> <<"E">>
      [] key.pubkey_algo = "GPGME_PK_DSA" -> <<"D">>
      [] OTHER -> <<"?">>

\* HKP_INDEX_KEY_LINE
KeyLine(key, uidpart) ==
    <<"pub ">> \o PadLeft(Decimal(key.length), 5, " ") \o get_key_algo_letter(key)
    \o <<"/<a href=\"/pks/lookup?op=get&search=0x">> \o last_x(key.fpr, ShortIdLen)
    \o <<"\">">> \o last_x(key.fpr, ShortIdLen) \o <<"</a> ">>
    \o FormatDate(key.timestamp) \o <<" ">> \o uidpart \o <<"\r\n">>

\* HKP_INDEX_FPR_LINE
FprLine(key) ==
    <<"     Key fingerprint = ">> \o format_key_fingerprint(key) \o <<"\r\n">>

\* HKP_INDEX_UID_LINE
UidLine(uidpart) ==
    <<"                               ">> \o uidpart \o <<"\r\n">>

\* HKP_INDEX_SIG_LINE
SigLine(sig) ==
    <<"sig        <a href=\"/pks/lookup?op=get&search=0x">>
    \o last_x(sig.keyid, ShortIdLen) \o <<"\">">> \o last_x(sig.keyid, ShortIdLen)
    \o <<"</a>             ">> \o format_key_uid(sig.name, sig.keyid, sig.email)
    \o <<"\r\n">>

RECURSIVE SigLines(_)
SigLines(sigs) ==
    IF sigs = <<>> THEN <<>> ELSE SigLine(Head(sigs)) \o SigLines(Tail(sigs))

\* the loop's test for moving the cursor on: every pass but the first pass
\* over a revoked key
Advances_Always(key, first) == TRUE

Advances(key, first) == ~first \/ ~key.revoked

\* the cursor at each pass of the loop, from the pass with cursor i on
RECURSIVE UidPasses(_, _, _)
UidPasses(key, i, first) ==
    IF i > Len(key.uids) THEN <<>>
    ELSE <<i>> \o UidPasses(key, IF Advances(key, first) THEN i + 1 ELSE i, FALSE)

\* one pass of append_key_info's loop over the user ids: "i" is the cursor
\* (uid), "first" the flag; the result is the text the remaining passes add
RECURSIVE UidLoop(_, _, _, _, _)
\* the loop adding the signatures on every pass, also on the pass that
\* keeps the cursor
UidLoop_SigsEveryPass(key, i, first, verbose, fingerprints) ==
    IF i > Len(key.uids) THEN <<>>
    ELSE LET uid == key.uids[i]
             uidpart == IF key.revoked THEN HKP_INDEX_REVOKED
                        ELSE format_key_uid(uid.name, key.fpr, uid.email)
             line == IF first
                     THEN KeyLine(key, uidpart)
                          \o (IF fingerprints THEN FprLine(key) ELSE <<>>)
                     ELSE UidLine(uidpart)
             advance == ~first \/ ~key.revoked
             sigs == IF verbose THEN SigLines(uid.signatures) ELSE <<>>
         IN line \o sigs
            \o UidLoop(key, IF advance THEN i + 1 ELSE i, FALSE, verbose, fingerprints)

\* the loop putting the marker on the lines after the first only
UidLoop_NoMarkerOnFirst(key, i, first, verbose, fingerprints) ==
    IF i > Len(key.uids) THEN <<>>
    ELSE LET uid == key.uids[i]
             uidpart == IF key.revoked /\ ~first THEN HKP_INDEX_REVOKED
                        ELSE format_key_uid(uid.name, key.fpr, uid.email)
             line == IF first
                     THEN KeyLine(key, uidpart)
                          \o (IF fingerprints THEN FprLine(key) ELSE <<>>)
                     ELSE UidLine(uidpart)
             advance == ~first \/ ~key.revoked
             sigs == IF advance /\ verbose THEN SigLines(uid.signatures) ELSE <<>>
         IN line \o sigs
            \o UidLoop(key, IF advance THEN i + 1 ELSE i, FALSE, verbose, fingerprints)

UidLoop(key, i, first, verbose, fingerprints) ==
    IF i > Len(key.uids) THEN <<>>
    ELSE LET uid == key.uids[i]
             uidpart == IF key.revoked THEN HKP_INDEX_REVOKED
                        ELSE format_key_uid(uid.name, key.fpr, uid.email)
             line == IF first
                     THEN KeyLine(key, uidpart)
                          \o (IF fingerprints THEN FprLine(key) ELSE <<>>)
                     ELSE UidLine(uidpart)
             advance == Advances(key, first)
             sigs == IF advance /\ verbose THEN SigLines(uid.signatures) ELSE <<>>
         IN line \o sigs
            \o UidLoop(key, IF advance THEN i + 1 ELSE i, FALSE, verbose, fingerprints)

\* append_key_info: nothing is added for a key without user ids
append_key_info(response, key, verbose, fingerprints) ==
    IF key.uids = <<>> THEN response
    ELSE response \o UidLoop(key, 1, TRUE, verbose, fingerprints)

RECURSIVE AppendKeys(_, _, _, _)
AppendKeys(response, keys, verbose, fingerprints) ==
    IF keys = <<>> THEN response
    ELSE AppendKeys(append_key_info(response, Head(keys), verbose, fingerprints),
                    Tail(keys), verbose, fingerprints)

\* The two grave accents that open the quoted search term in the page
\* titles, written by code point: the parser pairs a grave accent with a
\* later apostrophe even inside a string.
OpenQuote == "U+0060U+0060"
CloseQuote == "''"

\* HKP_INDEX_PREFIX and HKP_VINDEX_PREFIX: both are headed "Verbose Index"
IndexPrefix(verbose, t) ==
    <<"<title>Public Key Server -- Verbose Index ", OpenQuote>> \o t
    \o <<CloseQuote, "</title><p><h1>Public Key Server -- Verbose Index ", OpenQuote>>
    \o t
    \o (IF verbose THEN <<CloseQuote, "</h1><p><pre>">>
        ELSE <<CloseQuote, "</h1><p><pre>Type bits /keyID    Date       User ID\r\n">>)

\* HKP_GET_PREFIX
GetPrefix(t) ==
    <<"<title>Public Key Server -- Get ", OpenQuote>> \o t
    \o <<CloseQuote, "</title><p>\r\n<h1>Public Key Server -- Get ", OpenQuote>> \o t
    \o <<CloseQuote, "</h1><p>\r\n<pre>\r\n">>

(***************************************************************************)
(* The SoupMessage and the query parameter table of one request.           *)
(* A handler works on st = [msg, ctx, calls]: the message, the gpgme       *)
(* context, and the log of the library calls the handler has made.         *)
(***************************************************************************)
NoBody == [set |-> FALSE, content_type |-> "", data |-> <<>>]

\* the message as libsoup hands it to a handler
NewMessage(method, path, args) ==
    [method |-> method, path |-> path, args |-> args,
     status_code |-> SOUP_STATUS_NONE, response_headers |-> <<>>,
     response_body |-> NoBody]

soup_message_set_response(m, content_type, data) ==
    [m EXCEPT !.response_body =
        [set |-> TRUE, content_type |-> content_type, data |-> data]]

soup_message_set_status(m, code) == [m EXCEPT !.status_code = code]

soup_message_headers_append(m, name, value) ==
    [m EXCEPT !.response_headers = Append(@, <<name, value>>)]

Log(st, call) == [st EXCEPT !.calls = Append(@, call)]

\* g_hash_table_lookup (args, k) != NULL, and the value it returns
Has(args, k) == k \in DOMAIN args.table
Val(args, k) == args.table[k]
\* the test changed to !t: an empty value passes
Missing_NullOnly(args, k) == ~Has(args, k)

\* !t || !t[0]
Missing(args, k) == ~Has(args, k) \/ Val(args, k) = <<>>

(***************************************************************************)
(* The lookup handlers.                                                    *)
(***************************************************************************)
\* lookup_handle_error changed to report a gpgme failure in the status
lookup_handle_error_ErrStatus(st, details, gerr) ==
    LET t == HKP_ERROR_RESPONSE \o <<details>>
        st1 == [st EXCEPT !.msg = soup_message_set_response(@, "text/html", t)]
        st2 == IF gerr THEN Log(st1, "g_warning") ELSE st1
    IN [st |-> st2,
        code |-> IF gerr THEN SOUP_STATUS_INTERNAL_SERVER_ERROR ELSE SOUP_STATUS_OK]

lookup_handle_error(st, details, gerr) ==
    LET t == HKP_ERROR_RESPONSE \o <<details>>
        st1 == [st EXCEPT !.msg = soup_message_set_response(@, "text/html", t)]
        st2 == IF gerr THEN Log(st1, "g_warning") ELSE st1
    IN [st |-> st2, code |-> SOUP_STATUS_OK]

\* lookup_handle_index, lines 356-358: the keylist mode is set on every call
index_set_mode(st, verbose) ==
    LET mode == {GPGME_KEYLIST_MODE_LOCAL}
                \cup (IF verbose THEN {GPGME_KEYLIST_MODE_SIGS} ELSE {})
    IN Log([st EXCEPT !.ctx.keylist_mode = mode], "gpgme_set_keylist_mode")

\* lookup_handle_index, lines 376-390: one gpgme_op_keylist_next per key
\* handed out, one more that ends the loop, then gpgme_op_keylist_end
RECURSIVE LogNext(_, _)
LogNext(st, n) ==
    IF n = 0 THEN st ELSE LogNext(Log(st, "gpgme_op_keylist_next"), n - 1)

\* index_finish changed to render the page whether or not a key was found
index_finish_AlwaysPage(st, found, response) ==
    [st |-> [st EXCEPT !.msg = soup_message_set_response(
                    @, "text/html", response \o HKP_INDEX_SUFFIX)],
     code |-> SOUP_STATUS_OK]

\* lookup_handle_index, lines 392-404
index_finish(st, found, response) ==
    IF found
    THEN [st |-> [st EXCEPT !.msg = soup_message_set_response(
                        @, "text/html", response \o HKP_INDEX_SUFFIX)],
          code |-> SOUP_STATUS_OK]
    ELSE lookup_handle_error(st, "No matching keys in database", FALSE)

lookup_handle_index(st, args, verbose, env) ==
    LET st1 == index_set_mode(st, verbose)
        st2 == Log(st1, "g_hash_table_lookup(fingerprint)")
        fingerprints == Has(args, "fingerprint")
                        /\ StrCaseEq(Val(args, "fingerprint"), <<"o", "n">>)
        st3 == Log(st2, "g_hash_table_lookup(search)")
    IN IF Missing(args, "search")
       THEN lookup_handle_error(
                st3, "pks request did not include a <b>search</b> property", FALSE)
       ELSE LET search == Val(args, "search")
                st4 == Log(st3, "gpgme_op_keylist_start")
            IN IF env.keylist_start_err
               THEN lookup_handle_error(st4, "Error retrieving key(s)", TRUE)
               ELSE LET keys == Keylist(st4.ctx, search, env.next_limit)
                        found == keys # <<>>
                        header == IF found
                                  THEN IndexPrefix(verbose, escape_html(search))
                                  ELSE <<>>
                        response == AppendKeys(header, keys, verbose, fingerprints)
                        st5 == Log(LogNext(st4, Len(keys) + 1), "gpgme_op_keylist_end")
                    IN index_finish(st5, found, response)

\* get_export changed to switch armor on after the export has run
get_export_ArmorAfter(st, search) ==
    LET st1 == Log(st, "gpgme_op_export")
        data == Export(st1.ctx, search)
        st2 == Log([st1 EXCEPT !.ctx.armor = TRUE], "gpgme_set_armor")
    IN [st |-> st2, data |-> data]

\* lookup_handle_get, lines 434-437: armor is switched on, then the export
\* runs; the result is the state and the data the export wrote
get_export(st, search) ==
    LET st1 == Log([st EXCEPT !.ctx.armor = TRUE], "gpgme_set_armor")
        st2 == Log(st1, "gpgme_op_export")
    IN [st |-> st2, data |-> Export(st2.ctx, search)]

\* get_finish changed to test the pointer only, not the length
get_finish_NoLenCheck(st, search, key_null, key) ==
    IF key_null
    THEN lookup_handle_error(st, "No matching key in database", FALSE)
    ELSE [st |-> [st EXCEPT !.msg = soup_message_set_response(
                        @, "text/html",
                        GetPrefix(escape_html(search)) \o key \o HKP_GET_SUFFIX)],
          code |-> SOUP_STATUS_OK]

\* lookup_handle_get, lines 439-457
get_finish(st, search, key_null, key) ==
    IF key_null \/ Len(key) = 0
    THEN lookup_handle_error(st, "No matching key in database", FALSE)
    ELSE [st |-> [st EXCEPT !.msg = soup_message_set_response(
                        @, "text/html",
                        GetPrefix(escape_html(search)) \o key \o HKP_GET_SUFFIX)],
          code |-> SOUP_STATUS_OK]

lookup_handle_get(st, args, env) ==
    LET st1 == Log(st, "g_hash_table_lookup(search)")
    IN IF Missing(args, "search")
       THEN lookup_handle_error(
                st1, "pks request did not include a <b>search</b> property", FALSE)
       ELSE LET search == Val(args, "search")
                st2 == Log(st1, "gpgme_data_new")
            IN IF env.data_new_err
               THEN lookup_handle_error(st2, "Internal error", TRUE)
               ELSE LET ex == get_export(st2, search)
                    IN IF env.export_err
                       THEN lookup_handle_error(ex.st, "Error retrieving key(s)", TRUE)
                       ELSE get_finish(Log(ex.st, "gpgme_data_release_and_get_mem"),
                                       search, env.mem_null, ex.data)

\* lookup_dispatch changed to compare the operation exactly (strcmp)
lookup_dispatch_CaseSensitive(st, args, env) ==
    LET st1 == Log(st, "g_hash_table_lookup(op)")
        t == Val(args, "op")
    IN IF Missing(args, "op")
       THEN lookup_handle_error(
                st1, "pks request did not include an <b>op</b> property", FALSE)
       ELSE IF t = <<"i", "n", "d", "e", "x">>
       THEN lookup_handle_index(st1, args, FALSE, env)
       ELSE IF t = <<"v", "i", "n", "d", "e", "x">>
       THEN lookup_handle_index(st1, args, TRUE, env)
       ELSE IF t = <<"g", "e", "t">>
       THEN lookup_handle_get(st1, args, env)
       ELSE lookup_handle_error(
                st1, "pks request had an invalid <b>op</b> property", FALSE)

\* lookup_callback, lines 492-507: the operation is picked by an ASCII
\* case-insensitive comparison
lookup_dispatch(st, args, env) ==
    LET st1 == Log(st, "g_hash_table_lookup(op)")
        t == Val(args, "op")
    IN IF Missing(args, "op")
       THEN lookup_handle_error(
                st1, "pks request did not include an <b>op</b> property", FALSE)
       ELSE IF StrCaseEq(t, <<"i", "n", "d", "e", "x">>)
       THEN lookup_handle_index(st1, args, FALSE, env)
       ELSE IF StrCaseEq(t, <<"v", "i", "n", "d", "e", "x">>)
       THEN lookup_handle_index(st1, args, TRUE, env)
       ELSE IF StrCaseEq(t, <<"g", "e", "t">>)
       THEN lookup_handle_get(st1, args, env)
       ELSE lookup_handle_error(
                st1, "pks request had an invalid <b>op</b> property", FALSE)

\* lookup_no_query changed to answer with the code lookup_handle_error
\* returns, as the other lookup errors do
lookup_no_query_Status200(st, args) ==
    LET r == lookup_handle_error(
                 IF args.null THEN st ELSE Log(st, "g_hash_table_size"),
                 "pks request had no query string", FALSE)
    IN [r.st EXCEPT !.msg = soup_message_set_status(@, r.code)]

\* lookup_callback, lines 486-490: no query at all is answered 405, with
\* the error body
lookup_no_query(st, args) ==
    LET r == lookup_handle_error(
                 IF args.null THEN st ELSE Log(st, "g_hash_table_size"),
                 "pks request had no query string", FALSE)
    IN [r.st EXCEPT !.msg = soup_message_set_status(@, SOUP_STATUS_METHOD_NOT_ALLOWED)]

\* lookup_callback changed to lack the return after the method check: the
\* 405 is set and the handler goes on
lookup_callback_NoReturn(st, env) ==
    LET args == st.msg.args
        st1 == [st EXCEPT !.msg = soup_message_headers_append(@, "Connection", "close")]
    IN IF args.null \/ Cardinality(DOMAIN args.table) = 0
       THEN lookup_no_query(st1, args)
       ELSE LET r == lookup_dispatch(Log(st1, "g_hash_table_size"), args, env)
            IN [r.st EXCEPT !.msg = soup_message_set_status(@, r.code)]

lookup_callback(st, env) ==
    LET args == st.msg.args
        st1 == [st EXCEPT !.msg = soup_message_headers_append(@, "Connection", "close")]
    IN IF st1.msg.method # "GET"
       THEN [st1 EXCEPT !.msg = soup_message_set_status(@, SOUP_STATUS_METHOD_NOT_ALLOWED)]
       ELSE IF args.null \/ Cardinality(DOMAIN args.table) = 0
       THEN lookup_no_query(st1, args)
       ELSE LET r == lookup_dispatch(Log(st1, "g_hash_table_size"), args, env)
            IN [r.st EXCEPT !.msg = soup_message_set_status(@, r.code)]

\* add_callback changed to answer as the default handler does
add_callback_NotFound(st) ==
    LET m1 == soup_message_set_response(st.msg, "text/html", HKP_ADD_RESPONSE)
        m2 == soup_message_set_status(m1, SOUP_STATUS_NOT_FOUND)
    IN [st EXCEPT !.msg = soup_message_headers_append(m2, "Connection", "close")]

add_callback(st) ==
    LET m1 == soup_message_set_response(st.msg, "text/html", HKP_ADD_RESPONSE)
        m2 == soup_message_set_status(m1, SOUP_STATUS_METHOD_NOT_ALLOWED)
    IN [st EXCEPT !.msg = soup_message_headers_append(m2, "Connection", "close")]

\* default_callback changed to leave the connection header out
default_callback_NoClose(st) ==
    LET m1 == soup_message_set_response(st.msg, "text/html", HKP_NOTFOUND_RESPONSE)
    IN [st EXCEPT !.msg = soup_message_set_status(m1, SOUP_STATUS_NOT_FOUND)]

default_callback(st) ==
    LET m1 == soup_message_set_response(st.msg, "text/html", HKP_NOTFOUND_RESPONSE)
        m2 == soup_message_set_status(m1, SOUP_STATUS_NOT_FOUND)
    IN [st EXCEPT !.msg = soup_message_headers_append(m2, "Connection", "close")]

(***************************************************************************)
(* The server: start, stop, and the routing of a request to a handler.     *)
(***************************************************************************)
\* seahorse_hkp_server_start, lines 619-621: the handlers, by path; the
\* handler added for the NULL path is the default one
Handlers ==
    <<[path |-> <<"pks", "lookup">>, callback |-> "lookup_callback"],
      [path |-> <<"pks", "add">>, callback |-> "add_callback"],
      [path |-> <<>>, callback |-> "default_callback"]>>

IsPrefix(p, q) == Len(p) <= Len(q) /\ SubSeq(q, 1, Len(p)) = p

\* libsoup hands a request to the handler added for the longest path that
\* the request's path is at or below
Route(server, path) ==
    LET fits == {i \in 1..Len(server.handlers) : IsPrefix(server.handlers[i].path, path)}
        best == CHOOSE i \in fits :
                    \A j \in fits : Len(server.handlers[j].path) <= Len(server.handlers[i].path)
    IN server.handlers[best].callback

\* what the libraries answer to one seahorse_hkp_server_start
StartEnv ==
    [check_version_ok : BOOLEAN, engine_err : BOOLEAN, new_err : BOOLEAN,
     protocol_err : BOOLEAN, server_new_ok : BOOLEAN, port : 1..MaxPort]

\* The objects the libraries have handed out and the program has not yet
\* given back: SoupServer listeners, gpgme contexts, Avahi clients and
\* Avahi entry groups.
EmptyHeap == [servers |-> 0, ctxs |-> 0, clients |-> 0, groups |-> 0]

\* hp with one more (d = 1) or one fewer (d = -1) object of the kind
Alloc(hp, kind, d) == [hp EXCEPT ![kind] = @ + d]

\* seahorse_hkp_server_start without the test for a running server
seahorse_hkp_server_start_NoRunningCheck(server, ctx, hp, env) ==
    LET fail(c, h, e) == [soup_server |-> server, gpgme_ctx |-> c, heap |-> h,
                          ret |-> [value |-> FALSE, err |-> e]]
    IN IF ctx = NULL /\ ~env.check_version_ok THEN fail(ctx, hp, FALSE)
       ELSE IF ctx = NULL /\ env.engine_err THEN fail(ctx, hp, FALSE)
       ELSE IF ctx = NULL /\ env.new_err THEN fail(ctx, hp, FALSE)
       ELSE LET ctx1 == IF ctx = NULL THEN NewCtx ELSE ctx
                hp1 == IF ctx = NULL THEN Alloc(hp, "ctxs", 1) ELSE hp
            IN IF ctx = NULL /\ env.protocol_err THEN fail(ctx1, hp1, FALSE)
               ELSE IF ~env.server_new_ok THEN fail(ctx1, hp1, TRUE)
               ELSE [soup_server |-> [port |-> env.port, handlers |-> Handlers],
                     gpgme_ctx |-> ctx1,
                     heap |-> Alloc(hp1, "servers", 1),
                     ret |-> [value |-> TRUE, err |-> FALSE]]

seahorse_hkp_server_start(server, ctx, hp, env) ==
    LET fail(c, h, e) == [soup_server |-> server, gpgme_ctx |-> c, heap |-> h,
                          ret |-> [value |-> FALSE, err |-> e]]
    IN IF ctx = NULL /\ ~env.check_version_ok THEN fail(ctx, hp, FALSE)
       ELSE IF ctx = NULL /\ env.engine_err THEN fail(ctx, hp, FALSE)
       ELSE IF ctx = NULL /\ env.new_err THEN fail(ctx, hp, FALSE)
       ELSE LET ctx1 == IF ctx = NULL THEN NewCtx ELSE ctx
                hp1 == IF ctx = NULL THEN Alloc(hp, "ctxs", 1) ELSE hp
            IN IF ctx = NULL /\ env.protocol_err THEN fail(ctx1, hp1, FALSE)
               ELSE IF server # NULL THEN fail(ctx1, hp1, FALSE)
               ELSE IF ~env.server_new_ok THEN fail(ctx1, hp1, TRUE)
               ELSE [soup_server |-> [port |-> env.port, handlers |-> Handlers],
                     gpgme_ctx |-> ctx1,
                     heap |-> Alloc(hp1, "servers", 1),
                     ret |-> [value |-> TRUE, err |-> FALSE]]

\* seahorse_hkp_server_stop that keeps the gpgme context
seahorse_hkp_server_stop_KeepCtx(server, ctx, hp) ==
    [soup_server |-> NULL, gpgme_ctx |-> ctx,
     heap |-> IF server # NULL THEN Alloc(hp, "servers", -1) ELSE hp]

seahorse_hkp_server_stop(server, ctx, hp) ==
    LET hp1 == IF server # NULL THEN Alloc(hp, "servers", -1) ELSE hp
    IN [soup_server |-> NULL, gpgme_ctx |-> NULL,
        heap |-> IF ctx # NULL THEN Alloc(hp1, "ctxs", -1) ELSE hp1]

seahorse_hkp_server_is_running(server) == server # NULL

\* the port, or 0 when no server runs (g_return_val_if_fail)
seahorse_hkp_server_get_port(server) ==
    IF server = NULL THEN 0 ELSE server.port

(***************************************************************************)
(* DNS-SD publishing, src/unnamed/part_000.  The publishing code works on  *)
(* a record sh of the statics it reads and writes: soup_server, gpgme_ctx  *)
(* and heap of the server, share_name, share_alternate, avahi_client and   *)
(* avahi_group of its own, and steps, the calls made so far by the entry   *)
(* point that is running.                                                  *)
(***************************************************************************)
HKP_SERVICE_TYPE == "_pgpkey-hkp._tcp."

\* a string that is not NULL
Str(text) == [text |-> text]

\* one call, as steps records it; arg and port are set where a claim needs them
Did(call) == [call |-> call, arg |-> NULL, port |-> 0]
Do(sh, call) == [sh EXCEPT !.steps = Append(@, Did(call))]

\* the process has died in a library assertion
Aborted(log) == log # <<>> /\ log[Len(log)].call = "abort"

AsciiToUpper(c) ==
    IF \E i \in 1..Len(LowerChars) : LowerChars[i] = c
    THEN UpperChars[CHOOSE i \in 1..Len(LowerChars) : LowerChars[i] = c]
    ELSE c

\* both branches upper-case the first character and keep the rest
string_up_first(orig) ==
    IF orig = <<>> THEN <<>> ELSE <<AsciiToUpper(Head(orig))>> \o Tail(orig)

\* the accounts the daemon may run under: what g_get_real_name and
\* g_get_user_name answer
Unknown == <<"U","n","k","n","o","w","n">>
DefaultUser == [real_name |-> Str(<<"A","n","n"," ","L","e","e">>), user_name |-> <<"a","n","n">>]
Users ==
    {DefaultUser,
     [real_name |-> Str(Unknown), user_name |-> <<"b","o","b">>],
     [real_name |-> NULL, user_name |-> <<"e","v","e">>]}

show_error(sh) == Do(sh, "show_error")

\* stop_publishing that also stops the server when it reports an error
stop_publishing_AlsoServer(sh, errmsg) ==
    LET s1 == [sh EXCEPT !.share_name = NULL]
        s2 == IF s1.avahi_group # NULL
              THEN [Do(s1, "avahi_entry_group_free") EXCEPT
                       !.avahi_group = NULL, !.heap = Alloc(@, "groups", -1)]
              ELSE s1
        s3 == IF s2.avahi_client # NULL
              THEN [Do(s2, "avahi_client_free") EXCEPT
                       !.avahi_client = NULL, !.heap = Alloc(@, "clients", -1)]
              ELSE s2
    IN IF errmsg THEN show_error([s3 EXCEPT !.soup_server = NULL]) ELSE s3

\* stop_publishing that forgets the client without freeing it
stop_publishing_LeakClient(sh, errmsg) ==
    LET s1 == [sh EXCEPT !.share_name = NULL]
        s2 == IF s1.avahi_group # NULL
              THEN [Do(s1, "avahi_entry_group_free") EXCEPT
                       !.avahi_group = NULL, !.heap = Alloc(@, "groups", -1)]
              ELSE s1
        s3 == [s2 EXCEPT !.avahi_client = NULL]
    IN IF errmsg THEN show_error(s3) ELSE s3

stop_publishing(sh, errmsg) ==
    LET s1 == [sh EXCEPT !.share_name = NULL]
        s2 == IF s1.avahi_group # NULL
              THEN [Do(s1, "avahi_entry_group_free") EXCEPT
                       !.avahi_group = NULL, !.heap = Alloc(@, "groups", -1)]
              ELSE s1
        s3 == IF s2.avahi_client # NULL
              THEN [Do(s2, "avahi_client_free") EXCEPT
                       !.avahi_client = NULL, !.heap = Alloc(@, "clients", -1)]
              ELSE s2
    IN IF errmsg THEN show_error(s3) ELSE s3

\* the name without the alternate: "%s's encryption keys"
BaseName(u) ==
    LET user_name == IF u.real_name = NULL \/ u.real_name.text = Unknown
                     THEN string_up_first(u.user_name)
                     ELSE u.real_name.text
    IN user_name \o <<"'s encryption keys">>

\* calc_share_name that never appends the alternate
calc_share_name_NoAlternate(sh, u) ==
    [sh EXCEPT !.share_name = Str(BaseName(u))]

calc_share_name(sh, u) ==
    [sh EXCEPT !.share_name =
        Str(IF sh.share_alternate # 0
            THEN BaseName(u) \o <<" #">> \o Decimal(sh.share_alternate)
            ELSE BaseName(u))]

\* What Avahi answers during one entry point: whether avahi_client_new,
\* avahi_entry_group_new, avahi_entry_group_add_service and
\* avahi_entry_group_commit succeed; the state avahi_client_new reports to
\* client_callback before it returns ("none": no callback yet); whether the
\* client's error is AVAHI_ERR_DISCONNECTED; and whether a NULL service name
\* ends the process in the library's assertion or is refused with an error.
ClientStates == {"S_REGISTERING", "S_RUNNING", "S_COLLISION", "FAILURE"}
GroupStates == {"ESTABLISHED", "COLLISION", "FAILURE"}
AvahiEnv ==
    [client_new_ok : BOOLEAN, early : {"none", "S_RUNNING", "S_COLLISION"},
     group_new_ok : BOOLEAN, add_ok : BOOLEAN, commit_ok : BOOLEAN,
     disconnected : BOOLEAN, null_name_aborts : BOOLEAN]

add_service(sh, env) ==
    LET s1 == [sh EXCEPT !.steps = Append(@,
                  [call |-> "avahi_entry_group_add_service", arg |-> sh.share_name,
                   port |-> seahorse_hkp_server_get_port(sh.soup_server)])]
        record == [name |-> sh.share_name, type |-> HKP_SERVICE_TYPE,
                   port |-> seahorse_hkp_server_get_port(sh.soup_server)]
    IN IF sh.share_name = NULL /\ env.null_name_aborts THEN Do(s1, "abort")
       ELSE IF sh.share_name = NULL \/ ~env.add_ok THEN stop_publishing(s1, TRUE)
       ELSE LET s2 == Do([s1 EXCEPT !.avahi_group.services = @ \cup {record}],
                         "avahi_entry_group_commit")
            IN IF env.commit_ok THEN s2 ELSE stop_publishing(s2, TRUE)

\* services_callback that takes a failure of the group like any other state
services_callback_IgnoreFailure(sh, state, env, u) ==
    CASE state = "COLLISION" ->
            add_service(calc_share_name([sh EXCEPT !.share_alternate = @ + 1], u), env)
      [] OTHER -> sh

services_callback(sh, state, env, u) ==
    CASE state = "COLLISION" ->
            add_service(calc_share_name([sh EXCEPT !.share_alternate = @ + 1], u), env)
      [] state = "FAILURE" -> stop_publishing(sh, TRUE)
      [] OTHER -> sh

\* client_callback, case AVAHI_CLIENT_S_RUNNING
client_running(sh, env) ==
    IF sh.avahi_group = NULL
    THEN LET s1 == Do(sh, "avahi_entry_group_new")
         IN IF ~env.group_new_ok THEN stop_publishing(s1, TRUE)
            ELSE add_service([s1 EXCEPT !.avahi_group = [services |-> {}],
                                        !.heap = Alloc(@, "groups", 1)], env)
    ELSE add_service(sh, env)

\* client_callback, case AVAHI_CLIENT_S_COLLISION
\* client_collision that drops the group itself
client_collision_FreeGroup(sh) ==
    IF sh.avahi_group # NULL
    THEN [Do(sh, "avahi_entry_group_free") EXCEPT
             !.avahi_group = NULL, !.heap = Alloc(@, "groups", -1)]
    ELSE sh

client_collision(sh) ==
    IF sh.avahi_group # NULL
    THEN [Do(sh, "avahi_entry_group_reset") EXCEPT !.avahi_group.services = {}]
    ELSE sh

Client == [callback |-> "client_callback"]

\* [st, value]: the state and the return value.  The callback Avahi runs
\* before avahi_client_new has returned sees avahi_client still NULL.
start_publishing(sh, env, u) ==
    LET s1 == Do(calc_share_name([sh EXCEPT !.share_alternate = 0], u), "avahi_client_new")
    IN IF ~env.client_new_ok THEN [st |-> s1, value |-> FALSE]
       ELSE LET s2 == [s1 EXCEPT !.heap = Alloc(@, "clients", 1)]
                s3 == CASE env.early = "S_RUNNING" -> client_running(s2, env)
                        [] env.early = "S_COLLISION" -> client_collision(s2)
                        [] OTHER -> s2
            IN [st |-> [s3 EXCEPT !.avahi_client = Client], value |-> TRUE]

\* client_callback, case AVAHI_CLIENT_FAILURE
\* the error of the client, as avahi_client_errno reports it
ClientErrno(env) ==
    IF env.disconnected THEN "AVAHI_ERR_DISCONNECTED" ELSE "AVAHI_ERR_FAILURE"

\* client_failure that shows an error whatever the client's error is
client_failure_AlwaysError(sh, env, u) ==
    LET s0 == [sh EXCEPT !.steps = Append(@,
                  [call |-> "avahi_client_errno", arg |-> Str(<<ClientErrno(env)>>),
                   port |-> 0])]
        s1 == stop_publishing(s0, TRUE)
    IN start_publishing(Do(s1, "sleep"), env, u).st

client_failure(sh, env, u) ==
    LET errmsg == ClientErrno(env) # "AVAHI_ERR_DISCONNECTED"
        s0 == [sh EXCEPT !.steps = Append(@,
                  [call |-> "avahi_client_errno", arg |-> Str(<<ClientErrno(env)>>),
                   port |-> 0])]
        s1 == stop_publishing(s0, errmsg)
    IN start_publishing(Do(s1, "sleep"), env, u).st

client_callback(sh, state, env, u) ==
    CASE state = "S_RUNNING" -> client_running(sh, env)
      [] state = "S_COLLISION" -> client_collision(sh)
      [] state = "FAILURE" -> client_failure(sh, env, u)
      [] OTHER -> sh

\* start_sharing that starts publishing again when the server already runs
start_sharing_AlwaysPublish(sh, senv, env, u) ==
    IF seahorse_hkp_server_is_running(sh.soup_server)
    THEN start_publishing(sh, env, u).st
    ELSE LET r == seahorse_hkp_server_start(sh.soup_server, sh.gpgme_ctx, sh.heap, senv)
             s1 == [Do(sh, "seahorse_hkp_server_start") EXCEPT
                       !.soup_server = r.soup_server, !.gpgme_ctx = r.gpgme_ctx,
                       !.heap = r.heap, !.ret = r.ret]
         IN IF ~r.ret.value
            THEN (IF r.ret.err THEN show_error(s1) ELSE s1)
            ELSE LET p == start_publishing(s1, env, u)
                 IN IF p.value THEN p.st
                    ELSE LET q == seahorse_hkp_server_stop(p.st.soup_server,
                                                           p.st.gpgme_ctx, p.st.heap)
                             s2 == [Do(p.st, "seahorse_hkp_server_stop") EXCEPT
                                       !.soup_server = q.soup_server,
                                       !.gpgme_ctx = q.gpgme_ctx, !.heap = q.heap]
                         IN stop_publishing(s2, TRUE)

start_sharing(sh, senv, env, u) ==
    IF seahorse_hkp_server_is_running(sh.soup_server) THEN sh
    ELSE LET r == seahorse_hkp_server_start(sh.soup_server, sh.gpgme_ctx, sh.heap, senv)
             s1 == [Do(sh, "seahorse_hkp_server_start") EXCEPT
                       !.soup_server = r.soup_server, !.gpgme_ctx = r.gpgme_ctx,
                       !.heap = r.heap, !.ret = r.ret]
         IN IF ~r.ret.value
            THEN (IF r.ret.err THEN show_error(s1) ELSE s1)
            ELSE LET p == start_publishing(s1, env, u)
                 IN IF p.value THEN p.st
                    ELSE LET q == seahorse_hkp_server_stop(p.st.soup_server,
                                                           p.st.gpgme_ctx, p.st.heap)
                             s2 == [Do(p.st, "seahorse_hkp_server_stop") EXCEPT
                                       !.soup_server = q.soup_server,
                                       !.gpgme_ctx = q.gpgme_ctx, !.heap = q.heap]
                         IN stop_publishing(s2, TRUE)

\* stop_sharing that reports the stop as an error
stop_sharing_ShowsError(sh) ==
    LET s1 == stop_publishing(sh, TRUE)
    IN IF seahorse_hkp_server_is_running(s1.soup_server)
       THEN LET q == seahorse_hkp_server_stop(s1.soup_server, s1.gpgme_ctx, s1.heap)
            IN [Do(s1, "seahorse_hkp_server_stop") EXCEPT
                   !.soup_server = q.soup_server, !.gpgme_ctx = q.gpgme_ctx,
                   !.heap = q.heap]
       ELSE s1

\* stop_sharing that stops the server before the publishing
stop_sharing_ServerFirst(sh) ==
    LET s1 == IF seahorse_hkp_server_is_running(sh.soup_server)
              THEN LET q == seahorse_hkp_server_stop(sh.soup_server, sh.gpgme_ctx, sh.heap)
                   IN [Do(sh, "seahorse_hkp_server_stop") EXCEPT
                          !.soup_server = q.soup_server, !.gpgme_ctx = q.gpgme_ctx,
                          !.heap = q.heap]
              ELSE sh
    IN stop_publishing(s1, FALSE)

stop_sharing(sh) ==
    LET s1 == stop_publishing(sh, FALSE)
    IN IF seahorse_hkp_server_is_running(s1.soup_server)
       THEN LET q == seahorse_hkp_server_stop(s1.soup_server, s1.gpgme_ctx, s1.heap)
            IN [Do(s1, "seahorse_hkp_server_stop") EXCEPT
                   !.soup_server = q.soup_server, !.gpgme_ctx = q.gpgme_ctx,
                   !.heap = q.heap]
       ELSE s1

(***************************************************************************)
(* The requests peers send and what gpgme answers while one is handled.    *)
(***************************************************************************)
Methods == {"GET", "POST"}

Paths == {<<"pks", "lookup">>, <<"pks", "lookup", "x">>, <<"pks", "add">>,
          <<"pks", "add", "x">>, <<"pks">>, <<"unknown", "path">>, <<>>}

OpValues == {<<>>, <<"i","n","d","e","x">>, <<"I","n","d","e","x">>,
             <<"v","i","n","d","e","x">>, <<"g","e","t">>, <<"G","E","T">>,
             <<"a","d","d">>}
SearchValues == {<<>>, SearchAll, SearchBob, SearchNobody}
FingerprintValues == {<<"o","n">>, <<"O","n">>, <<"o","f","f">>}

\* a parameter table: each of the three parameters is absent or has a value
Absent == <<"(absent)">>
Table(op, search, fingerprint) ==
    LET given == {p \in {<<"op", op>>, <<"search", search>>, <<"fingerprint", fingerprint>>} :
                     p[2] # Absent}
    IN [k \in {p[1] : p \in given} |-> (CHOOSE p \in given : p[1] = k)[2]]

\* the query: NULL when the request has none, else the decoded table (which
\* is empty for an empty query string)
NoArgs == [null |-> TRUE, table |-> <<>>]
ArgsSet ==
    {NoArgs} \cup
    {[null |-> FALSE, table |-> Table(op, search, fingerprint)] :
        op \in OpValues \cup {Absent}, search \in SearchValues \cup {Absent},
        fingerprint \in FingerprintValues \cup {Absent}}

\* What gpgme answers while one lookup is handled.  A lookup lists keys or
\* exports one, never both, so the answers are drawn for one family of
\* calls at a time and the other family is left at "no failure".
ListingEnv ==
    [keylist_start_err : BOOLEAN, next_limit : 0..MaxNext, data_new_err : {FALSE},
     export_err : {FALSE}, mem_null : {FALSE}]
ExportEnv ==
    [keylist_start_err : {FALSE}, next_limit : {MaxNext}, data_new_err : BOOLEAN,
     export_err : BOOLEAN, mem_null : BOOLEAN]
LookupEnv == ListingEnv \cup ExportEnv
QuietEnv ==
    [keylist_start_err |-> FALSE, next_limit |-> MaxNext, data_new_err |-> FALSE,
     export_err |-> FALSE, mem_null |-> FALSE]

\* the handler libsoup runs for the message, on the state st
RunHandler(server, st, env) ==
    LET callback == Route(server, st.msg.path)
    IN CASE callback = "lookup_callback" -> lookup_callback(st, env)
         [] callback = "add_callback" -> add_callback(st)
         [] OTHER -> default_callback(st)

\* the whole handling of one request, from the context ctx
Respond(server, ctx, method, path, args, env) ==
    RunHandler(server, [msg |-> NewMessage(method, path, args), ctx |-> ctx,
                        calls |-> <<>>], env)

(***************************************************************************)
(* The state machine.                                                      *)
(***************************************************************************)
\* the statics as the program text initialises them, under the account u
\* main has registered its handlers and has not been asked to quit
DaemonStatics ==
    [pc |-> "registered", daemon_quit |-> FALSE, daemon_running |-> FALSE,
     pending |-> {}, quit_asked |-> FALSE, arrived |-> "none"]

Statics(u) ==
    /\ daemon = DaemonStatics
    /\ soup_server = NULL
    /\ gpgme_ctx = NULL
    /\ msg = NULL
    /\ calls = <<>>
    /\ ret = [value |-> FALSE, err |-> FALSE]
    /\ heap = EmptyHeap
    /\ share_name = NULL
    /\ share_alternate = 0
    /\ avahi_client = NULL
    /\ avahi_group = NULL
    /\ user = u
    /\ steps = <<>>

\* no run of the renderer on its own
NoRender ==
    [records |-> <<>>, verbose |-> FALSE, fingerprints |-> FALSE,
     response |-> <<>>, done |-> 0]

Init == Statics(DefaultUser) /\ render = NoRender

Start ==
    /\ msg = NULL
    /\ \E env \in StartEnv :
          LET r == seahorse_hkp_server_start(soup_server, gpgme_ctx, heap, env)
          IN /\ soup_server' = r.soup_server
             /\ gpgme_ctx' = r.gpgme_ctx
             /\ heap' = r.heap
             /\ ret' = r.ret
    /\ UNCHANGED <<msg, calls, sharing_vars, render, daemon>>

Stop ==
    /\ msg = NULL
    /\ LET r == seahorse_hkp_server_stop(soup_server, gpgme_ctx, heap)
       IN /\ soup_server' = r.soup_server
          /\ gpgme_ctx' = r.gpgme_ctx
          /\ heap' = r.heap
    /\ UNCHANGED <<msg, calls, ret, sharing_vars, render, daemon>>

\* a request arrives and its handler runs to the end
Request ==
    /\ soup_server # NULL
    /\ msg = NULL
    /\ \E method \in Methods, path \in Paths, args \in ArgsSet :
          \E env \in IF Route(soup_server, path) = "lookup_callback"
                     THEN LookupEnv
                     ELSE {QuietEnv} :
             LET st == Respond(soup_server, gpgme_ctx, method, path, args, env)
             IN /\ msg' = st.msg
                /\ gpgme_ctx' = st.ctx
                /\ calls' = st.calls
    /\ UNCHANGED <<soup_server, ret, heap, sharing_vars, render, daemon>>

\* libsoup has written the response; the message is freed
Finished ==
    /\ msg # NULL
    /\ msg' = NULL
    /\ calls' = <<>>
    /\ UNCHANGED <<soup_server, gpgme_ctx, ret, heap, sharing_vars, render, daemon>>

Next == Start \/ Stop \/ Request \/ Finished

Spec == Init /\ [][Next]_vars

(***************************************************************************)
(* The daemon's sharing: start_sharing, stop_sharing and the callbacks     *)
(* Avahi runs from the main loop.  Each action is one entry point run to   *)
(* its end; steps is the list of calls it made, the entry itself first.    *)
(***************************************************************************)
SharingInit == (\E u \in Users : Statics(u)) /\ render = NoRender

\* the statics on entry to the entry point call, with its argument state
Enter(call, state) ==
    [soup_server |-> soup_server, gpgme_ctx |-> gpgme_ctx, heap |-> heap, ret |-> ret,
     share_name |-> share_name, share_alternate |-> share_alternate,
     avahi_client |-> avahi_client, avahi_group |-> avahi_group,
     steps |-> <<[call |-> call, arg |-> Str(<<state>>), port |-> 0]>>]

\* the statics as the entry point leaves them
Leaves(sh) ==
    /\ soup_server' = sh.soup_server
    /\ gpgme_ctx' = sh.gpgme_ctx
    /\ heap' = sh.heap
    /\ ret' = sh.ret
    /\ share_name' = sh.share_name
    /\ share_alternate' = sh.share_alternate
    /\ avahi_client' = sh.avahi_client
    /\ avahi_group' = sh.avahi_group
    /\ steps' = sh.steps
    /\ UNCHANGED <<msg, calls, user, render>>

\* ... with the daemon's main standing where it is
Leave(sh) == Leaves(sh) /\ UNCHANGED daemon

\* the answers an entry point can see: start_sharing never reads the
\* client's error and always has a name; a group callback only registers
StartSharingEnv ==
    [client_new_ok : BOOLEAN, early : {"none", "S_RUNNING", "S_COLLISION"},
     group_new_ok : BOOLEAN, add_ok : BOOLEAN, commit_ok : BOOLEAN,
     disconnected : {FALSE}, null_name_aborts : {FALSE}]
GroupEnv ==
    [client_new_ok : {TRUE}, early : {"none"}, group_new_ok : {TRUE},
     add_ok : BOOLEAN, commit_ok : BOOLEAN,
     disconnected : {FALSE}, null_name_aborts : {FALSE}]

\* the libraries are asked nothing when the server already runs
QuietStart ==
    [check_version_ok |-> TRUE, engine_err |-> FALSE, new_err |-> FALSE,
     protocol_err |-> FALSE, server_new_ok |-> TRUE, port |-> 1]
QuietAvahi ==
    [client_new_ok |-> TRUE, early |-> "none", group_new_ok |-> TRUE, add_ok |-> TRUE,
     commit_ok |-> TRUE, disconnected |-> FALSE, null_name_aborts |-> FALSE]

StartSharing ==
    /\ ~Aborted(steps)
    /\ \E senv \in IF soup_server = NULL THEN StartEnv ELSE {QuietStart},
          env \in IF soup_server = NULL THEN StartSharingEnv ELSE {QuietAvahi} :
          Leave(start_sharing(Enter("start_sharing", "void"), senv, env, user))

StopSharing ==
    /\ ~Aborted(steps)
    /\ Leave(stop_sharing(Enter("stop_sharing", "void")))

\* Avahi reports a state of the live client
ClientCalls ==
    /\ ~Aborted(steps)
    /\ avahi_client # NULL
    /\ \E state \in ClientStates, env \in AvahiEnv :
          Leaves(client_callback(Enter("client_callback", state), state, env, user))

ClientEvent == ClientCalls /\ UNCHANGED daemon

\* Avahi reports a state of the live group; a group in collision has had
\* its committed records withdrawn
GroupCalls ==
    /\ ~Aborted(steps)
    /\ avahi_group # NULL
    /\ \E state \in GroupStates, env \in GroupEnv :
          /\ state = "COLLISION" =>
                avahi_group.services # {} /\ share_alternate < MaxAlternate
          /\ LET sh == Enter("services_callback", state)
                 seen == IF state = "COLLISION"
                         THEN [sh EXCEPT !.avahi_group.services = {}]
                         ELSE sh
             IN Leaves(services_callback(seen, state, env, user))

GroupEvent == GroupCalls /\ UNCHANGED daemon

SharingNext == StartSharing \/ StopSharing \/ ClientEvent \/ GroupEvent

SharingSpec == SharingInit /\ [][SharingNext]_vars

(***************************************************************************)
(* The index renderer on its own: append_key_info applied to one key       *)
(* record after the other, as the loop of lookup_handle_index applies it,  *)
(* for every sequence of at most MaxRecords of the keys below and both     *)
(* values of each flag.                                                    *)
(***************************************************************************)
RenderKeys == {KeyAlice, KeyBob, KeyCarol, KeyEve, KeyNone}

RECURSIVE SeqsUpTo(_, _)
SeqsUpTo(S, n) ==
    IF n = 0 THEN {<<>>}
    ELSE SeqsUpTo(S, n - 1) \cup {Append(q, x) : q \in SeqsUpTo(S, n - 1), x \in S}

RenderInit ==
    /\ Statics(DefaultUser)
    /\ render \in [records : SeqsUpTo(RenderKeys, MaxRecords), verbose : BOOLEAN,
                   fingerprints : BOOLEAN, response : {<<>>}, done : {0}]

\* the next key record is appended to the response
RenderRecord ==
    /\ render.done < Len(render.records)
    /\ render' = [render EXCEPT
                     !.response = append_key_info(@, render.records[render.done + 1],
                                                  render.verbose, render.fingerprints),
                     !.done = @ + 1]
    /\ UNCHANGED <<soup_server, gpgme_ctx, msg, calls, ret, heap, sharing_vars, daemon>>

RenderNext == RenderRecord

RenderSpec == RenderInit /\ [][RenderNext]_vars

(***************************************************************************)
(* The daemon's main from the registration of its handlers on: it starts   *)
(* the sharing, tests daemon_quit, sets daemon_running, runs the main loop *)
(* and cleans up.  A termination request arrives at any time; its handler  *)
(* is a callback of the main loop, run when a loop iterates: the loop of   *)
(* gtk_main, or the loop gtk_dialog_run runs while an error is shown.      *)
(***************************************************************************)
Requests == {"SIGINT", "SIGTERM", "quit"}

\* gtk_main_quit: the loop of gtk_main, when there is one, is told to return
gtk_main_quit(d) ==
    IF d.pc \in {"gtk_main", "loop_dialog"} THEN [d EXCEPT !.quit_asked = TRUE] ELSE d

\* unix_signal that only quits the loop
unix_signal_NoFlag(d) ==
    IF d.daemon_running THEN gtk_main_quit(d) ELSE d

unix_signal(d) ==
    LET d1 == [d EXCEPT !.daemon_quit = TRUE]
    IN IF d1.daemon_running THEN gtk_main_quit(d1) ELSE d1

smclient_quit(d) ==
    LET d1 == [d EXCEPT !.daemon_quit = TRUE]
    IN IF d1.daemon_running THEN gtk_main_quit(d1) ELSE d1

\* the handler main has registered for the request
Handler(r, d) == IF r = "quit" THEN smclient_quit(d) ELSE unix_signal(d)

\* an error was shown among the calls: gtk_dialog_run has run its loop
Shown(log) == \E i \in 1..Len(log) : log[i].call = "show_error"

\* a loop is iterating, so that handlers are run
LoopRuns == daemon.pc \in {"init_dialog", "gtk_main", "loop_dialog"}

DaemonInit == Statics(DefaultUser) /\ render = NoRender

\* the daemon's main moves on to pc
Goes(pc) == daemon' = [daemon EXCEPT !.pc = pc]
Rest == UNCHANGED <<soup_server, gpgme_ctx, msg, calls, ret, heap, sharing_vars, render>>

\* a request arrives while the daemon runs
Arrive ==
    /\ ~Aborted(steps)
    /\ daemon.pc # "done"
    /\ \E r \in Requests \ daemon.pending :
          daemon' = [daemon EXCEPT !.pending = @ \cup {r},
                                   !.arrived = IF @ = "none" THEN daemon.pc ELSE @]
    /\ Rest

\* the loop that iterates runs the handler of a request
Dispatch ==
    /\ ~Aborted(steps)
    /\ LoopRuns
    /\ \E r \in daemon.pending :
          daemon' = Handler(r, [daemon EXCEPT !.pending = @ \ {r}])
    /\ Rest

\* seahorse_sharing_init; an error is shown in a dialog with its own loop
SharingInitStep ==
    /\ daemon.pc = "registered"
    /\ \E senv \in {e \in StartEnv : e.port = 1}, env \in StartSharingEnv :
          Leaves(start_sharing(Enter("start_sharing", "void"), senv, env, user))
    /\ Goes(IF Shown(steps') THEN "init_dialog" ELSE "test")

\* the dialog is closed and gtk_dialog_run returns
DialogClose ==
    /\ daemon.pc \in {"init_dialog", "loop_dialog"}
    /\ Goes(IF daemon.pc = "init_dialog" THEN "test" ELSE "gtk_main")
    /\ Rest

\* if(!daemon_quit)
Test ==
    /\ daemon.pc = "test"
    /\ Goes(IF ~daemon.daemon_quit THEN "set_running" ELSE "cleanup")
    /\ Rest

\* daemon_running = TRUE
SetRunning ==
    /\ daemon.pc = "set_running"
    /\ daemon' = [daemon EXCEPT !.daemon_running = TRUE, !.pc = "enter_loop"]
    /\ Rest

\* gtk_main () is entered
EnterLoop ==
    /\ daemon.pc = "enter_loop"
    /\ Goes("gtk_main")
    /\ Rest

\* the loop of gtk_main runs a callback of Avahi
LoopClientEvent ==
    /\ daemon.pc = "gtk_main"
    /\ ~daemon.quit_asked
    /\ ClientCalls
    /\ Goes(IF Shown(steps') THEN "loop_dialog" ELSE "gtk_main")

LoopGroupEvent ==
    /\ daemon.pc = "gtk_main"
    /\ ~daemon.quit_asked
    /\ GroupCalls
    /\ Goes(IF Shown(steps') THEN "loop_dialog" ELSE "gtk_main")

\* gtk_main () returns
LoopReturn ==
    /\ ~Aborted(steps)
    /\ daemon.pc = "gtk_main"
    /\ daemon.quit_asked
    /\ Goes("cleanup")
    /\ Rest

\* seahorse_sharing_cleanup, and main returns
Cleanup ==
    /\ ~Aborted(steps)
    /\ daemon.pc = "cleanup"
    /\ Leaves(stop_sharing(Enter("stop_sharing", "void")))
    /\ Goes("done")

\* the steps main takes by itself
MainSteps == SharingInitStep \/ Test \/ SetRunning \/ EnterLoop \/ LoopReturn \/ Cleanup

DaemonNext ==
    \/ Arrive
    \/ Dispatch
    \/ SharingInitStep
    \/ DialogClose
    \/ Test
    \/ SetRunning
    \/ EnterLoop
    \/ LoopClientEvent
    \/ LoopGroupEvent
    \/ LoopReturn
    \/ Cleanup

\* main goes on while it can, a loop that iterates runs the handlers that
\* are due, and a dialog is closed in the end
DaemonSpec ==
    /\ DaemonInit
    /\ [][DaemonNext]_vars
    /\ WF_vars(MainSteps)
    /\ WF_vars(Dispatch)
    /\ WF_vars(DialogClose)

(***************************************************************************)
(* Properties.  A state with msg # NULL is the state right after a         *)
(* handler has run: msg is the request with its response, calls the        *)
(* library calls the handler made.                                         *)
(***************************************************************************)
LookupPath == <<"pks", "lookup">>
AddPath == <<"pks", "add">>
OpIndex == <<"i", "n", "d", "e", "x">>
OpVindex == <<"v", "i", "n", "d", "e", "x">>
OpGet == <<"g", "e", "t">>

Responded == msg # NULL
GetLookup == Responded /\ msg.method = "GET" /\ msg.path = LookupPath
HasParams == ~msg.args.null /\ DOMAIN msg.args.table # {}
\* a GET lookup whose query has parameters and a non-empty op
LookupWithOp == GetLookup /\ HasParams /\ Has(msg.args, "op") /\ Val(msg.args, "op") # <<>>
SearchGiven == Has(msg.args, "search") /\ Val(msg.args, "search") # <<>>

Lower(str) == [i \in 1..Len(str) |-> AsciiToLower(str[i])]
Called(c) == \E i \in 1..Len(calls) : calls[i] = c
Count(c) == Cardinality({i \in 1..Len(calls) : calls[i] = c})
GpgmeCalls ==
    {"gpgme_set_keylist_mode", "gpgme_op_keylist_start", "gpgme_op_keylist_next",
     "gpgme_op_keylist_end", "gpgme_data_new", "gpgme_set_armor", "gpgme_op_export",
     "gpgme_data_release_and_get_mem"}
NoGpgmeCall == \A i \in 1..Len(calls) : calls[i] \notin GpgmeCalls
NoListingOrExport ==
    ~Called("gpgme_op_keylist_start") /\ ~Called("gpgme_op_export")
    /\ ~Called("gpgme_data_new")

ErrorBody(details) ==
    [set |-> TRUE, content_type |-> "text/html",
     data |-> <<"<title>Public Key Server -- Error</title><p>\r\n<h1>Public Key Server -- Error</h1><p>\r\n",
                details>>]
ConnectionClose == \E i \in 1..Len(msg.response_headers) :
                       msg.response_headers[i] = <<"Connection", "close">>

\* which handler ran, read off the calls it made
RanIndex == Called("gpgme_set_keylist_mode")
            /\ gpgme_ctx.keylist_mode = {GPGME_KEYLIST_MODE_LOCAL}
RanVindex == Called("gpgme_set_keylist_mode")
             /\ gpgme_ctx.keylist_mode = {GPGME_KEYLIST_MODE_LOCAL, GPGME_KEYLIST_MODE_SIGS}
RanGet == ~Called("gpgme_set_keylist_mode") /\ Len(calls) >= 3
          /\ calls[3] = "g_hash_table_lookup(search)"

\* C1: every GET to /pks/lookup that carries at least one query parameter is
\* answered 200 with an HTML body, whatever the outcome (success, missing or
\* invalid op, missing search, no match, gpgme failure).
C1_LookupStatusAlwaysOk ==
    (GetLookup /\ HasParams) =>
        /\ msg.status_code = 200
        /\ msg.response_body.set
        /\ msg.response_body.content_type = "text/html"

\* a gpgme failure was logged and the answer is still 200
C1_Witness ==
    GetLookup /\ HasParams /\ Called("g_warning") /\ msg.status_code = 200

\* C2: every response a handler produces carries "Connection: close", on
\* every route and on every branch of the lookup handler.
C2_ConnectionCloseAlways == Responded => ConnectionClose

\* the lookup handler's early 405 return for a method other than GET
C2_Witness ==
    Responded /\ msg.path = LookupPath /\ msg.method = "POST"
    /\ msg.status_code = 405 /\ ConnectionClose

\* C3: a request to /pks/lookup whose method is not GET is answered 405 and
\* nothing else is done: no body, no parameter examined, no gpgme call.
C3_NonGetLookupOnly405 ==
    (Responded /\ msg.path = LookupPath /\ msg.method # "GET") =>
        /\ msg.status_code = 405
        /\ msg.response_body = NoBody
        /\ calls = <<>>

\* a POST that would have exported a key had it been a GET
C3_Witness ==
    /\ Responded /\ msg.path = LookupPath /\ msg.method = "POST"
    /\ ~msg.args.null /\ Has(msg.args, "op") /\ Val(msg.args, "op") = OpGet
    /\ SearchGiven /\ Val(msg.args, "search") = SearchBob
    /\ msg.status_code = 405

\* C4: a GET to /pks/lookup with no query parameter at all (no table, or an
\* empty one) is answered 405 with the error body for the missing query
\* string, and gpgme is not called.
C4_NoQueryIs405 ==
    (GetLookup /\ ~HasParams) =>
        /\ msg.status_code = 405
        /\ msg.response_body = ErrorBody("pks request had no query string")
        /\ NoGpgmeCall

\* the empty parameter table
C4_Witness ==
    GetLookup /\ ~msg.args.null /\ DOMAIN msg.args.table = {}
    /\ msg.status_code = 405

\* what C5 says, with the op value compared as it is (fold = FALSE) or
\* with its ASCII letters folded to lower case (fold = TRUE)
OpDispatch(fold) ==
    LookupWithOp =>
        LET op == IF fold THEN Lower(Val(msg.args, "op")) ELSE Val(msg.args, "op")
        IN /\ op = OpIndex => RanIndex
           /\ op = OpVindex => RanVindex
           /\ op = OpGet => RanGet
           /\ op \notin {OpIndex, OpVindex, OpGet} =>
                 /\ msg.status_code = 200
                 /\ msg.response_body =
                        ErrorBody("pks request had an invalid <b>op</b> property")
                 /\ NoGpgmeCall

\* C5 as claimed: the op strings index, vindex and get run the three
\* handlers, and every other op value is answered 200 with the invalid-op
\* error body without any gpgme call.
C5_ExactOpDispatch == OpDispatch(FALSE)

\* C5 as amended: the same, with op compared to index, vindex and get
\* ignoring ASCII case.
C5_CaseInsensitiveOpDispatch == OpDispatch(TRUE)

\* op=Index ran the non-verbose index
C5_Witness ==
    LookupWithOp /\ Val(msg.args, "op") = <<"I", "n", "d", "e", "x">> /\ RanIndex
    /\ Called("gpgme_op_keylist_start")

\* the keys one listing handed out: every gpgme_op_keylist_next but the
\* last, which ends the loop
Records == Count("gpgme_op_keylist_next") - 1
IndexOp == LookupWithOp /\ Lower(Val(msg.args, "op")) \in {OpIndex, OpVindex}
\* the body is an index page: it ends with the index suffix
IsIndexPage ==
    /\ msg.response_body.set
    /\ Len(msg.response_body.data) >= 1
    /\ msg.response_body.data[Len(msg.response_body.data)] = "</pre>"

\* C6: for index and vindex, a listing that yields no record is answered
\* with the error body "No matching keys in database"; an index page is
\* rendered only when at least one record was returned.
C6_NoEmptyIndexPage ==
    IndexOp =>
        /\ (Called("gpgme_op_keylist_end") /\ Records = 0) =>
              /\ msg.status_code = 200
              /\ msg.response_body = ErrorBody("No matching keys in database")
        /\ IsIndexPage =>
              /\ Called("gpgme_op_keylist_end")
              /\ Records >= 1

\* a listing that ran to its end and handed out nothing
C6_Witness ==
    IndexOp /\ SearchGiven /\ Val(msg.args, "search") = SearchNobody
    /\ Called("gpgme_op_keylist_end") /\ Records = 0
    /\ msg.response_body = ErrorBody("No matching keys in database")

\* C7: for index, vindex and get, a missing or empty search parameter is
\* answered 200 with the missing-search error body, and no listing or
\* export is started.
C7_MissingSearch ==
    (LookupWithOp /\ Lower(Val(msg.args, "op")) \in {OpIndex, OpVindex, OpGet}
     /\ ~SearchGiven) =>
        /\ msg.status_code = 200
        /\ msg.response_body =
               ErrorBody("pks request did not include a <b>search</b> property")
        /\ NoListingOrExport

\* op=get with an empty (not absent) search value
C7_Witness ==
    LookupWithOp /\ Val(msg.args, "op") = OpGet
    /\ Has(msg.args, "search") /\ Val(msg.args, "search") = <<>>
    /\ msg.status_code = 200

GetOp == LookupWithOp /\ Lower(Val(msg.args, "op")) = OpGet /\ SearchGiven
\* gpgme_op_export was called and failed: its data was never fetched
ExportFailed == Called("gpgme_op_export") /\ ~Called("gpgme_data_release_and_get_mem")
\* the export ran and wrote nothing
ExportEmpty == Called("gpgme_data_release_and_get_mem")
               /\ Export(gpgme_ctx, Val(msg.args, "search")) = <<>>
\* the body is a get page: it ends with the get suffix
IsGetPage ==
    /\ msg.response_body.set
    /\ Len(msg.response_body.data) >= 1
    /\ msg.response_body.data[Len(msg.response_body.data)] = "\r\n</pre>"
\* the get page holds the exported text, whole and not empty, between the
\* prefix and the suffix
GetPageHoldsExport ==
    LET key == Export(gpgme_ctx, Val(msg.args, "search"))
    IN /\ Called("gpgme_data_release_and_get_mem")
       /\ key # <<>>
       /\ msg.response_body.data =
              GetPrefix(escape_html(Val(msg.args, "search"))) \o key \o <<"\r\n</pre>">>

\* C8 as claimed: for get with a search term, a failed export and an empty
\* export are both answered 200 with the error body "No matching key in
\* database"; a get page is rendered only for a successful, non-empty export.
C8_FailedOrEmptyExportNoMatch ==
    GetOp =>
        /\ (ExportFailed \/ ExportEmpty) =>
              /\ msg.status_code = 200
              /\ msg.response_body = ErrorBody("No matching key in database")
        /\ IsGetPage => GetPageHoldsExport

\* C8 as amended: both are answered 200 with an error body, which is
\* "Error retrieving key(s)" for a failed export and "No matching key in
\* database" for an empty one; a get page is rendered only for a
\* successful, non-empty export.
C8_FailedAndEmptyExport ==
    GetOp =>
        /\ ExportFailed =>
              /\ msg.status_code = 200
              /\ msg.response_body = ErrorBody("Error retrieving key(s)")
        /\ ExportEmpty =>
              /\ msg.status_code = 200
              /\ msg.response_body = ErrorBody("No matching key in database")
        /\ IsGetPage => GetPageHoldsExport

\* a failed export
C8_Witness ==
    GetOp /\ ExportFailed /\ msg.status_code = 200
    /\ msg.response_body = ErrorBody("Error retrieving key(s)")

AddBody ==
    [set |-> TRUE, content_type |-> "text/html",
     data |-> <<"<title>Public Key Server -- Error</title><p>\r\n<h1>Public Key Server -- Error</h1><p>\r\nAdding of keys not allowed">>]
NotFoundBody ==
    [set |-> TRUE, content_type |-> "text/html",
     data |-> <<"<HEAD><TITLE>404 Not Found</TITLE></HEAD><BODY>unknown uri in pks request</BODY>\r\n">>]
AtOrBelow(handler_path, path) ==
    Len(handler_path) <= Len(path)
    /\ \A i \in 1..Len(handler_path) : path[i] = handler_path[i]

LookupPaths == {path \in Paths : AtOrBelow(LookupPath, path)}
Idle == soup_server # NULL /\ gpgme_ctx # NULL /\ msg = NULL

\* C10: lookups are stateless: whatever requests were handled before, the
\* response to a request is the one a freshly started server gives to the
\* same request under the same gpgme answers; the context the earlier
\* requests left behind (keylist mode, armor) does not show in it.
C10_StatelessLookup ==
    Idle =>
        /\ \A method \in Methods, path \in LookupPaths, args \in ArgsSet, env \in LookupEnv :
              Respond(soup_server, gpgme_ctx, method, path, args, env).msg
                  = Respond(soup_server, NewCtx, method, path, args, env).msg
        /\ \A method \in Methods, path \in Paths \ LookupPaths, args \in ArgsSet :
              Respond(soup_server, gpgme_ctx, method, path, args, QuietEnv).msg
                  = Respond(soup_server, NewCtx, method, path, args, QuietEnv).msg

\* earlier requests (a vindex and a get) have left their marks on the
\* context
C10_Witness ==
    Idle /\ gpgme_ctx.armor /\ GPGME_KEYLIST_MODE_SIGS \in gpgme_ctx.keylist_mode

(***************************************************************************)
(* Properties of the server's start and stop.                              *)
(***************************************************************************)
\* C11: a Start step taken while a server runs returns FALSE and leaves the
\* listener (so its port) and the gpgme context as they were; and in every
\* state at most one listener is alive.
C11_StartWhileRunningFails ==
    /\ [](heap.servers <= 1)
    /\ [][(soup_server # NULL /\ Start) =>
             /\ ~ret'.value
             /\ soup_server' = soup_server
             /\ gpgme_ctx' = gpgme_ctx
             /\ heap' = heap]_vars

\* a server runs and the last start failed: it was made while that server ran
C11_Witness ==
    /\ soup_server # NULL
    /\ ~ret.value
    /\ heap.servers = 1

\* C12: every Stop step leaves no listener and no gpgme context, with
\* is_running false and get_port 0, and leaves the last result as it was;
\* a Stop step from the stopped state (after a stop, or never started)
\* changes nothing at all.
C12_StopIdempotent ==
    [][Stop =>
          /\ soup_server' = NULL
          /\ gpgme_ctx' = NULL
          /\ heap'.servers = 0
          /\ heap'.ctxs = 0
          /\ ~seahorse_hkp_server_is_running(soup_server')
          /\ seahorse_hkp_server_get_port(soup_server') = 0
          /\ ret' = ret
          /\ (soup_server = NULL /\ gpgme_ctx = NULL => UNCHANGED vars)]_vars

\* a server was started (the last start returned TRUE) and has been stopped
C12_Witness ==
    /\ ret.value
    /\ soup_server = NULL
    /\ gpgme_ctx = NULL
    /\ heap = EmptyHeap

(***************************************************************************)
(* Properties of the sharing.  After an entry point has run, steps holds   *)
(* the calls it made: steps[1] is the entry itself.                        *)
(***************************************************************************)
\* the last entry point run was call
Ran(call) == steps # <<>> /\ steps[1].call = call
\* the last entry point run was the callback call, for the state reported
RanFor(call, state) == Ran(call) /\ steps[1].arg = Str(<<state>>)
\* the last entry point made the call c
Made(c) == \E i \in 1..Len(steps) : steps[i].call = c
\* the place of the first call c among the calls of the last entry point
FirstAt(c) == CHOOSE i \in 1..Len(steps) : steps[i].call = c /\ \A j \in 1..(i - 1) : steps[j].call # c
\* the statics of the server and of the publishing
Statics7 == <<soup_server, gpgme_ctx, heap, ret, share_name, share_alternate,
              avahi_client, avahi_group>>

\* C13: a start_sharing step taken while the server runs leaves every static
\* as it was (same listener, same client and group, same share name and
\* share_alternate, no object created) and calls nothing; a stop_sharing
\* step taken while nothing runs does the same, so it shows no error.
C13_SharingIdempotent ==
    /\ [][(soup_server # NULL /\ Ran("start_sharing")') =>
             UNCHANGED Statics7 /\ Len(steps') = 1]_vars
    /\ [][(soup_server = NULL /\ Ran("stop_sharing")') =>
             UNCHANGED Statics7 /\ Len(steps') = 1]_vars

\* start_sharing has just run with the server and a client already there
C13_Witness ==
    /\ Ran("start_sharing")
    /\ Len(steps) = 1
    /\ soup_server # NULL
    /\ avahi_client # NULL
    /\ share_alternate > 0

\* C14 as stated: no entry point but stop_sharing stops the server, whatever
\* failure of the advertisement it meets.
C14_OnlyStopSharingStopsServer ==
    Made("seahorse_hkp_server_stop") => Ran("stop_sharing")

\* C14, amended: a server that runs when an entry point begins is still the
\* same running server when it ends, unless the entry point is stop_sharing;
\* and the only other caller of seahorse_hkp_server_stop is a start_sharing
\* whose avahi_client_new failed, which stops the server it has just started.
C14_ServerOutlivesAdvertisement ==
    /\ [](Made("seahorse_hkp_server_stop") =>
            \/ Ran("stop_sharing")
            \/ /\ Ran("start_sharing")
               /\ Made("avahi_client_new")
               /\ avahi_client = NULL
               /\ soup_server = NULL)
    /\ [][soup_server # NULL =>
             soup_server' = soup_server \/ Ran("stop_sharing")']_vars

\* a group failure has torn the advertisement down, with an error shown,
\* and the server still runs
C14_Witness ==
    /\ RanFor("services_callback", "FAILURE")
    /\ Made("show_error")
    /\ avahi_client = NULL
    /\ avahi_group = NULL
    /\ soup_server # NULL

\* the base name followed by " #n"
Numbered(n) == Str(BaseName(user) \o <<" #">> \o Decimal(n))
\* the records the live group holds under the name
Registered(name) == {r \in avahi_group.services : r.name = name}

\* C15: share_alternate counts the group collisions since publishing was
\* last started (reset by the entry point that calls avahi_client_new, one
\* more per COLLISION callback, otherwise kept); a share name, while there
\* is one, is the bare base name for count 0 and the base name followed by
\* " #N" for count N >= 1; and the COLLISION callback, as its first call,
\* registers under the name numbered with the new count, on the same client
\* and on the same group (none is created or freed before the call), where
\* the record then sits unless the registration failed.
C15_CollisionNaming ==
    /\ [](share_name # NULL =>
            share_name = IF share_alternate = 0 THEN Str(BaseName(user))
                         ELSE Numbered(share_alternate))
    /\ [][share_alternate' =
             IF RanFor("services_callback", "COLLISION")' THEN share_alternate + 1
             ELSE IF Made("avahi_client_new")' THEN 0
             ELSE share_alternate]_vars
    /\ [](RanFor("services_callback", "COLLISION") =>
            /\ share_alternate >= 1
            /\ steps[2].call = "avahi_entry_group_add_service"
            /\ steps[2].arg = Numbered(share_alternate)
            /\ (share_name # NULL =>
                  /\ share_name = Numbered(share_alternate)
                  /\ avahi_group # NULL
                  /\ Registered(share_name) # {}))
    /\ [][RanFor("services_callback", "COLLISION")' /\ share_name' # NULL =>
             avahi_client' = avahi_client /\ heap' = heap]_vars

\* the second collision in a row has been answered: the record sits in the
\* group under the base name followed by " #2"
C15_Witness ==
    /\ RanFor("services_callback", "COLLISION")
    /\ share_alternate = 2
    /\ share_name = Str(BaseName(user) \o <<" #", "2">>)
    /\ avahi_group # NULL
    /\ Registered(share_name) # {}

\* how many of the calls of the last entry point are the call c
Times(c) == Cardinality({i \in 1..Len(steps) : steps[i].call = c})

\* C16 as stated: when the FAILURE callback of the client has run, the
\* restart has left a new client, share_alternate 0 and the bare base name.
C16_FailureLeavesNewClient ==
    RanFor("client_callback", "FAILURE") =>
        /\ avahi_client # NULL
        /\ share_alternate = 0
        /\ share_name = Str(BaseName(user))

\* C16, what the code does instead: the FAILURE callback of the client sleeps and then calls
\* avahi_client_new exactly once, with share_alternate reset to 0 and the
\* share name recomputed as the bare base name (cleared again, with an error
\* shown, only when the callback run during avahi_client_new fails to make
\* or fill its group); a client is there
\* afterwards exactly when that one avahi_client_new succeeded.  When it
\* failed nothing retries: a missing client is only ever created by a
\* start_sharing made while the server does not run.
C16_OneRestartAttempt ==
    /\ [](RanFor("client_callback", "FAILURE") =>
            /\ Times("sleep") = 1
            /\ Times("avahi_client_new") = 1
            /\ FirstAt("sleep") < FirstAt("avahi_client_new")
            /\ share_alternate = 0
            /\ (share_name # NULL => share_name = Str(BaseName(user)))
            /\ (share_name = NULL => Made("avahi_entry_group_new") /\ Times("show_error") >= 1)
            /\ (avahi_client # NULL <=> heap.clients = 1)
            /\ heap.clients <= 1)
    /\ [][avahi_client = NULL /\ avahi_client' # NULL =>
             Ran("start_sharing")' /\ soup_server = NULL]_vars

\* the restart after a client failure could not create a client: the server
\* runs, a share name is set, and there is no client to call back
C16_Witness ==
    /\ RanFor("client_callback", "FAILURE")
    /\ avahi_client = NULL
    /\ share_name = Str(BaseName(user))
    /\ soup_server # NULL

\* the places, among the calls of the last entry point, of the calls c
Places(c) == {i \in 1..Len(steps) : steps[i].call = c}

\* C17: whenever a group (the holder of the service record) or a client is
\* alive the server runs, and every record in the group carries the port of
\* the running server; every registration an entry point makes is made with
\* the port of the server that runs when the entry point ends; and when
\* stop_sharing stops the server, the group and the client it frees are
\* freed before seahorse_hkp_server_stop is called.
C17_RecordNeverOutlivesServer ==
    /\ avahi_group # NULL \/ avahi_client # NULL => soup_server # NULL
    /\ avahi_group # NULL =>
          \A r \in avahi_group.services : r.port = soup_server.port
    /\ \A i \in Places("avahi_entry_group_add_service") :
          soup_server # NULL /\ steps[i].port = soup_server.port
    /\ Ran("stop_sharing") =>
          \A i \in Places("avahi_entry_group_free") \cup Places("avahi_client_free"),
             j \in Places("seahorse_hkp_server_stop") : i < j

\* a record is registered for a server listening on a port other than the
\* first one, after a collision
C17_Witness ==
    /\ avahi_group # NULL
    /\ soup_server # NULL
    /\ soup_server.port > 1
    /\ share_alternate = 1
    /\ \E r \in avahi_group.services : r.port = soup_server.port /\ r.name = share_name

(***************************************************************************)
(* Properties of the index renderer.  Every line ends with the chunk       *)
(* "\r\n" and begins with the first chunk of its format.                   *)
(***************************************************************************)
PubMark == Head(KeyLine(KeyAlice, <<>>))
UidMark == Head(UidLine(<<>>))
SigMark == Head(SigLine(SigAlice))
EndOfLine == "\r\n"

\* how many chunks of the text are the chunk c
CountOf(text, c) == Cardinality({i \in 1..Len(text) : text[i] = c})

\* the lines of a text
RECURSIVE Lines(_)
Lines(text) ==
    IF text = <<>> THEN <<>>
    ELSE LET ends == {i \in 1..Len(text) : text[i] = EndOfLine}
             n == IF ends = {} THEN Len(text)
                  ELSE CHOOSE i \in ends : \A j \in ends : i <= j
         IN <<SubSeq(text, 1, n)>> \o Lines(SubSeq(text, n + 1, Len(text)))

\* the (user id, signature) pairs of the user ids, and of the key records
RECURSIVE UidPairs(_)
UidPairs(uids) ==
    IF uids = <<>> THEN 0 ELSE Len(Head(uids).signatures) + UidPairs(Tail(uids))
RECURSIVE Pairs(_)
Pairs(records) ==
    IF records = <<>> THEN 0 ELSE UidPairs(Head(records).uids) + Pairs(Tail(records))

\* every record given to the renderer has been rendered
RenderDone == render.records # <<>> /\ render.done = Len(render.records)
\* the records that have a user id
WithUid == {i \in 1..Len(render.records) : render.records[i].uids # <<>>}
\* the record a RenderRecord step renders, and the text the step adds
Rendering == render.records[render.done + 1]
Added == SubSeq(render'.response, Len(render.response) + 1, Len(render'.response))
\* the record rendered last
Last == render.records[render.done]

Continuations ==
    SelectSeq(Lines(Added), LAMBDA line : Head(line) = UidMark)

\* C20 as stated: the user id lines added for a revoked record with user
\* ids u1..un are the lines of u2..un, in order, each with its own formatted
\* name and email.
C20_OwnNameOnContinuationLines ==
    [][RenderRecord /\ Rendering.revoked /\ Rendering.uids # <<>> =>
          Continuations =
             [j \in 1..(Len(Rendering.uids) - 1) |->
                 UidLine(format_key_uid(Rendering.uids[j + 1].name, Rendering.fpr,
                                        Rendering.uids[j + 1].email))]]_vars

\* C20, what the code does instead: a revoked record with user ids u1..un
\* adds n user id lines, one for each of u1..un, each carrying the marker.
C20_MarkerOnEveryLine ==
    [][RenderRecord /\ Rendering.revoked /\ Rendering.uids # <<>> =>
          Continuations =
             [j \in 1..Len(Rendering.uids) |-> UidLine(HKP_INDEX_REVOKED)]]_vars

\* a revoked record with two user ids has been rendered: two user id lines
C20_Witness ==
    /\ render.done = 1
    /\ Last.revoked
    /\ Len(Last.uids) = 2
    /\ CountOf(render.response, UidMark) = 2

(***************************************************************************)
(* Properties of the handles and of the single callbacks.                  *)
(***************************************************************************)
\* the call c is made, among the calls of the last entry point, before place i
MadeBefore(c, i) == \E j \in 1..(i - 1) : steps[j].call = c

\* C21: between entry points the live clients are exactly the one
\* avahi_client points to, if any, and the live groups exactly the one
\* avahi_group points to, if any; and inside an entry point a client (a
\* group) is only asked for when none is live: the pointer was NULL on
\* entry or the handle has been freed earlier in the same entry point, and
\* it is asked for at most once.
C21_AtMostOneHandle ==
    /\ [](/\ heap.clients = IF avahi_client = NULL THEN 0 ELSE 1
          /\ heap.groups = IF avahi_group = NULL THEN 0 ELSE 1)
    /\ [][/\ Times("avahi_client_new")' <= 1
          /\ Times("avahi_entry_group_new")' <= 1
          /\ \A i \in Places("avahi_client_new")' :
                avahi_client = NULL \/ MadeBefore("avahi_client_free", i)'
          /\ \A i \in Places("avahi_entry_group_new")' :
                avahi_group = NULL \/ MadeBefore("avahi_entry_group_free", i)']_vars

\* a client failure has been answered from inside the callback: the old
\* client and group are freed, and the new client has made its group while
\* it was still being created
C21_Witness ==
    /\ RanFor("client_callback", "FAILURE")
    /\ Made("avahi_client_free")
    /\ Made("avahi_entry_group_free")
    /\ Made("avahi_entry_group_new")
    /\ avahi_client # NULL
    /\ avahi_group # NULL
    /\ heap.clients = 1
    /\ heap.groups = 1

\* the last entry point handled AVAHI_CLIENT_S_RUNNING, in a callback of the
\* live client or in one run while avahi_client_new created the client
HandledRunning ==
    /\ ~Ran("services_callback")
    /\ Made("avahi_entry_group_new") \/ Made("avahi_entry_group_add_service")
\* the place of the first call that handling made
RunningFrom ==
    CHOOSE i \in 1..Len(steps) :
        /\ steps[i].call \in {"avahi_entry_group_new", "avahi_entry_group_add_service"}
        /\ \A j \in 1..(i - 1) :
              steps[j].call \notin {"avahi_entry_group_new", "avahi_entry_group_add_service"}
\* ... and it did not end with the commit of the group
RunningFailed == HandledRunning /\ steps[Len(steps)].call # "avahi_entry_group_commit"
\* how often the call c was made from place i on
TimesFrom(c, i) == Cardinality({j \in i..Len(steps) : steps[j].call = c})

\* C22 as stated: when the handling of Running fails (group creation, add
\* or commit), the group and the client are freed, the share name is
\* cleared, exactly one error is shown and no new client is asked for.
C22_RunningFailureTearsDownFully ==
    RunningFailed =>
        /\ avahi_group = NULL /\ heap.groups = 0
        /\ avahi_client = NULL /\ heap.clients = 0
        /\ share_name = NULL
        /\ TimesFrom("show_error", RunningFrom) = 1
        /\ TimesFrom("avahi_client_new", RunningFrom) = 0

\* C22, what the code does: a Running callback of the live client asks for
\* a group exactly when there is none; when it succeeds the group holds the
\* one record {share name, HKP service type, port of the server} and the
\* commit is its last call; when group creation, the add or the commit
\* fails it frees group and client, clears the share name, shows one error
\* and asks for no new client.  The handling run inside avahi_client_new
\* frees the group and clears the name, and leaves the new client alive.
C22_RunningOfLiveClient ==
    [][RanFor("client_callback", "S_RUNNING")' =>
          /\ Made("avahi_entry_group_new")' <=> avahi_group = NULL
          /\ Times("avahi_entry_group_new")' <= 1
          /\ ~RunningFailed' =>
                /\ avahi_group' # NULL
                /\ avahi_group'.services =
                      {[name |-> share_name, type |-> HKP_SERVICE_TYPE,
                        port |-> seahorse_hkp_server_get_port(soup_server)]}
                /\ share_name' = share_name /\ share_name # NULL
                /\ avahi_client' = avahi_client
                /\ Times("avahi_entry_group_add_service")' = 1
                /\ Times("show_error")' = 0
          /\ (RunningFailed' /\ ~Aborted(steps')) =>
                /\ avahi_group' = NULL /\ heap'.groups = 0
                /\ avahi_client' = NULL /\ heap'.clients = 0
                /\ share_name' = NULL
                /\ Times("show_error")' = 1
                /\ Times("avahi_client_new")' = 0]_vars

\* start_sharing has returned after the registration failed inside
\* avahi_client_new: the error is shown, group and share name are gone and
\* the client that was being created is alive
C22_Witness ==
    /\ Ran("start_sharing")
    /\ RunningFailed
    /\ Made("avahi_entry_group_add_service")
    /\ Times("show_error") = 1
    /\ avahi_group = NULL
    /\ share_name = NULL
    /\ avahi_client # NULL
    /\ heap.clients = 1

\* C23: the FAILURE callback of the group frees the group, frees the client,
\* clears the share name, shows one error and asks for no new client; and
\* while there is no client, a client only comes from start_sharing called
\* with the server stopped, never from a callback.
C23_GroupFailureStopsPublishing ==
    /\ [][RanFor("services_callback", "FAILURE")' =>
             /\ avahi_group # NULL /\ avahi_group' = NULL /\ heap'.groups = 0
             /\ avahi_client # NULL /\ avahi_client' = NULL /\ heap'.clients = 0
             /\ Made("avahi_entry_group_free")' /\ Made("avahi_client_free")'
             /\ share_name' = NULL
             /\ Times("show_error")' = 1
             /\ ~Made("avahi_client_new")' /\ ~Made("sleep")']_vars
    /\ [][(avahi_client = NULL /\ avahi_client' # NULL) =>
             /\ Ran("start_sharing")'
             /\ soup_server = NULL
             /\ avahi_group = NULL]_vars

\* the group has failed: the error is shown and publishing is stopped, with
\* the server still running
C23_Witness ==
    /\ RanFor("services_callback", "FAILURE")
    /\ Times("show_error") = 1
    /\ avahi_group = NULL
    /\ avahi_client = NULL
    /\ share_name = NULL
    /\ heap.clients = 0 /\ heap.groups = 0
    /\ soup_server # NULL

\* C24: the S_COLLISION callback of the client empties the group there is
\* with avahi_entry_group_reset, its only call, and leaves the group in
\* place, the client, the share name, share_alternate, the server and the
\* count of live objects as they were; and the S_RUNNING callback that
\* follows it, finding the group, asks for no new one and adds the record
\* under the unchanged share name to that group, which on success holds
\* exactly this record.
C24_ClientCollisionResetsOnly ==
    /\ [][RanFor("client_callback", "S_COLLISION")' =>
             /\ avahi_group # NULL =>
                   /\ avahi_group' = [avahi_group EXCEPT !.services = {}]
                   /\ Len(steps') = 2 /\ steps'[2].call = "avahi_entry_group_reset"
             /\ avahi_group = NULL => avahi_group' = NULL /\ Len(steps') = 1
             /\ UNCHANGED <<avahi_client, share_name, share_alternate, heap,
                            soup_server, gpgme_ctx>>]_vars
    /\ [][(/\ RanFor("client_callback", "S_COLLISION")
           /\ avahi_group # NULL
           /\ RanFor("client_callback", "S_RUNNING")') =>
             /\ avahi_group.services = {}
             /\ ~Made("avahi_entry_group_new")'
             /\ share_name # NULL
             /\ steps'[2] = [call |-> "avahi_entry_group_add_service", arg |-> share_name,
                             port |-> seahorse_hkp_server_get_port(soup_server)]
             /\ ~RunningFailed' =>
                   /\ avahi_group'.services =
                         {[name |-> share_name, type |-> HKP_SERVICE_TYPE,
                           port |-> seahorse_hkp_server_get_port(soup_server)]}
                   /\ UNCHANGED <<avahi_client, share_name, share_alternate, heap>>]_vars

\* the client has collided after the group had taken its second name: the
\* group is there and empty, name and count are the ones of before
C24_Witness ==
    /\ RanFor("client_callback", "S_COLLISION")
    /\ Made("avahi_entry_group_reset")
    /\ avahi_group # NULL
    /\ avahi_group.services = {}
    /\ avahi_client # NULL
    /\ share_alternate = 1
    /\ share_name = Numbered(1)
    /\ heap.groups = 1

\* how often the call c was made before place i
TimesBefore(c, i) == Cardinality({j \in 1..(i - 1) : steps[j].call = c})
\* how often the call c was made before the first sleep
BeforeSleep(c) == TimesBefore(c, FirstAt("sleep"))
\* the statics and the calls as the last step leaves them
Left ==
    [soup_server |-> soup_server', gpgme_ctx |-> gpgme_ctx', heap |-> heap', ret |-> ret',
     share_name |-> share_name', share_alternate |-> share_alternate',
     avahi_client |-> avahi_client', avahi_group |-> avahi_group', steps |-> steps']
\* the statics of before the last step with publishing torn down fully, and
\* the first n calls of the step
TornDown(n) ==
    [soup_server |-> soup_server, gpgme_ctx |-> gpgme_ctx,
     heap |-> [heap EXCEPT !.clients = 0, !.groups = 0], ret |-> ret,
     share_name |-> NULL, share_alternate |-> share_alternate,
     avahi_client |-> NULL, avahi_group |-> NULL, steps |-> SubSeq(steps', 1, n)]

\* C25: the FAILURE callback of the client reads the client's error, then,
\* before it sleeps, frees the group if there is one and the client, and
\* shows an error exactly when the error is not AVAHI_ERR_DISCONNECTED; it
\* sleeps once and only then asks for the one new client; nothing is
\* registered before the sleep; and what it leaves is what start_publishing
\* makes of the fully torn down state (no group, no client, no share name):
\* share_alternate 0 and, unless a callback run inside avahi_client_new has
\* torn down again, the bare base name.
C25_TeardownThenDelayThenRestart ==
    [][RanFor("client_callback", "FAILURE")' =>
          /\ steps'[2].call = "avahi_client_errno"
          /\ Times("sleep")' = 1
          /\ Times("avahi_client_new")' = 1
          /\ FirstAt("avahi_client_new")' = FirstAt("sleep")' + 1
          /\ avahi_client # NULL
          /\ BeforeSleep("avahi_client_free")' = 1
          /\ BeforeSleep("avahi_entry_group_free")' =
                IF avahi_group # NULL THEN 1 ELSE 0
          /\ BeforeSleep("show_error")' =
                IF steps'[2].arg = Str(<<"AVAHI_ERR_DISCONNECTED">>) THEN 0 ELSE 1
          /\ BeforeSleep("avahi_entry_group_new")' = 0
          /\ BeforeSleep("avahi_entry_group_add_service")' = 0
          /\ \E env \in StartSharingEnv :
                Left = start_publishing(TornDown(FirstAt("sleep")'), env, user).st
          /\ share_alternate' = 0
          /\ share_name' \in {NULL, Str(BaseName(user))}]_vars

\* the client has failed with an error other than a disconnect while the
\* group had its second name: the one error shown comes before the sleep,
\* and the new client starts again from the bare base name
C25_Witness ==
    /\ RanFor("client_callback", "FAILURE")
    /\ steps[2].arg = Str(<<"AVAHI_ERR_FAILURE">>)
    /\ Made("avahi_entry_group_free")
    /\ FirstAt("show_error") < FirstAt("sleep")
    /\ Times("show_error") = 1
    /\ avahi_client # NULL
    /\ share_alternate = 0
    /\ share_name = Str(BaseName(user))

\* the phases stop_sharing can find the publishing in
NoClient == avahi_client = NULL
Connecting == avahi_client # NULL /\ avahi_group = NULL
Unregistered == avahi_client # NULL /\ avahi_group # NULL /\ avahi_group.services = {}
IsRegistered == avahi_client # NULL /\ avahi_group # NULL /\ avahi_group.services # {}

\* C26: stop_sharing, whatever it finds (no client; a client without a
\* group; a client with an empty group, as after a collision; a client with
\* a registered group), frees the group if there is one and then the client
\* if there is one, shows no error, and leaves no group, no client, no share
\* name and no live client or group object.
C26_StopFreesEverything ==
    [][Ran("stop_sharing")' =>
          /\ NoClient \/ Connecting \/ Unregistered \/ IsRegistered
          /\ avahi_group' = NULL /\ heap'.groups = 0
          /\ avahi_client' = NULL /\ heap'.clients = 0
          /\ share_name' = NULL
          /\ Times("show_error")' = 0
          /\ Times("avahi_entry_group_free")' = IF avahi_group # NULL THEN 1 ELSE 0
          /\ Times("avahi_client_free")' = IF avahi_client # NULL THEN 1 ELSE 0
          /\ (avahi_group # NULL /\ avahi_client # NULL) =>
                FirstAt("avahi_entry_group_free")' < FirstAt("avahi_client_free")'
          /\ ~Made("avahi_client_new")' /\ ~Made("avahi_entry_group_new")'
          /\ ~Made("avahi_entry_group_add_service")']_vars

\* stop_sharing has freed a group and a client
C26_Witness ==
    /\ Ran("stop_sharing")
    /\ Made("avahi_entry_group_free")
    /\ Made("avahi_client_free")
    /\ avahi_group = NULL /\ avahi_client = NULL /\ share_name = NULL
    /\ heap.clients = 0 /\ heap.groups = 0
    /\ ~Made("show_error")

\* C27 as stated: between entry points either the share name and the client
\* are both there, or share name, client and group are all absent.
C27_AllOrNothing ==
    \/ share_name # NULL /\ avahi_client # NULL
    \/ share_name = NULL /\ avahi_client = NULL /\ avahi_group = NULL

\* C27, what the code does: a group is only there together with its client
\* and a share name; a share name without a client is what a restart leaves
\* whose avahi_client_new failed, and a client without a share name what a
\* teardown leaves that ran inside avahi_client_new.
C27_GroupHasClientAndName ==
    /\ avahi_group # NULL => avahi_client # NULL /\ share_name # NULL
    /\ [][(share_name' # NULL /\ avahi_client' = NULL) =>
             \/ UNCHANGED <<share_name, avahi_client>>
             \/ /\ RanFor("client_callback", "FAILURE")'
                /\ steps'[Len(steps')].call = "avahi_client_new"]_vars
    /\ [][(share_name' = NULL /\ avahi_client' # NULL) =>
             \/ UNCHANGED <<share_name, avahi_client>>
             \/ /\ Made("avahi_client_new")' /\ Made("show_error")'
                /\ steps'[Len(steps')].call = "show_error"]_vars

\* the start_sharing called after a failed restart has changed nothing: the
\* share name of the restart is still set and there is no client
C27_Witness ==
    /\ Ran("start_sharing")
    /\ Len(steps) = 1
    /\ soup_server # NULL
    /\ share_name # NULL
    /\ avahi_client = NULL
    /\ avahi_group = NULL

(***************************************************************************)
(* The gpgme context of the server across a failed start.                  *)
(***************************************************************************)
\* C28 as stated: a Start step that fails at soup_server_new (the one
\* failure that sets the error) leaves listener, gpgme context and live
\* objects as they were, and in every state there is a gpgme context
\* exactly when the server is running.
C28_FailedStartLeavesNoSession ==
    /\ [](gpgme_ctx # NULL <=> seahorse_hkp_server_is_running(soup_server))
    /\ [][(Start /\ ret'.err) =>
             /\ soup_server' = soup_server
             /\ gpgme_ctx' = gpgme_ctx
             /\ heap' = heap]_vars

\* C28, what the code does: a running server has a gpgme context, and a
\* failed Start step never takes a context away.
C28_RunningHasSession ==
    /\ [](seahorse_hkp_server_is_running(soup_server) => gpgme_ctx # NULL)
    /\ [][(Start /\ ~ret'.value) =>
             /\ soup_server' = soup_server
             /\ gpgme_ctx # NULL => gpgme_ctx' = gpgme_ctx]_vars

\* the start has failed at soup_server_new: no server runs, the error is
\* set, and the gpgme context made by this call is alive
C28_Witness ==
    /\ ~ret.value
    /\ ret.err
    /\ ~seahorse_hkp_server_is_running(soup_server)
    /\ gpgme_ctx # NULL
    /\ heap.ctxs = 1
    /\ heap.servers = 0

(***************************************************************************)
(* Properties of the daemon's main.                                        *)
(***************************************************************************)
\* the daemon's main has returned, or the process has died
Over == daemon.pc = "done" \/ Aborted(steps)

Passes == UidPasses(Rendering, 1, TRUE)
\* how many of the passes have the cursor on user id i
PassesOn(i) == Cardinality({j \in 1..Len(Passes) : Passes[j] = i})

\* C30: a RenderRecord step for a record with n >= 1 user ids ends, having
\* made n passes when the record is not revoked and n + 1 when it is, so at
\* most n + 1; the cursor starts on the first user id, never goes back and
\* moves by one at most; it is on the first user id for one pass, or for two
\* when the record is revoked, and on every other user id for exactly one
\* pass; and each pass adds exactly one pub or uid line to the response.
C30_LoopVisitsEveryUid ==
    [][(render'.done = render.done + 1 /\ Len(Rendering.uids) >= 1) =>
          LET n == Len(Rendering.uids)
          IN /\ Len(Passes) = n + (IF Rendering.revoked THEN 1 ELSE 0)
             /\ Len(Passes) <= n + 1
             /\ Passes[1] = 1
             /\ \A j \in 1..(Len(Passes) - 1) : Passes[j + 1] \in {Passes[j], Passes[j] + 1}
             /\ {Passes[j] : j \in 1..Len(Passes)} = 1..n
             /\ PassesOn(1) = IF Rendering.revoked THEN 2 ELSE 1
             /\ \A i \in 2..n : PassesOn(i) = 1
             /\ CountOf(Added, PubMark) = 1
             /\ CountOf(Added, PubMark) + CountOf(Added, UidMark) = Len(Passes)]_vars

\* a revoked record with two user ids has been rendered in three passes,
\* after a record that is not revoked
C30_Witness ==
    /\ render.done = 2
    /\ Last.revoked
    /\ Len(Last.uids) = 2
    /\ UidPasses(Last, 1, TRUE) = <<1, 1, 2>>
    /\ ~render.records[1].revoked
    /\ CountOf(render.response, UidMark) >= 2

=============================================================================
